---- MODULE Spec2Model ----
(***************************************************************************)
(* PongLab backend: one node's room registry (RoomService), its socket     *)
(* handlers (RoomController), the Redis metadata projection and the        *)
(* replicated state / metadata messages the node applies.                  *)
(*                                                                         *)
(* A Player object is shared by reference between the global player table  *)
(* (RoomService.players) and the room map it was added to.  A room-map     *)
(* entry with live = TRUE is the very object the table holds under the     *)
(* same id: its name and isHost are read from the table.  An entry with    *)
(* live = FALSE is an object the table no longer holds (it was replaced or *)
(* deleted there) and carries its own name and isHost.                     *)
(***************************************************************************)
EXTENDS Integers, Sequences, FiniteSets, TLC

\* ------------------------------------------------------------ universes
Ids == {"s1", "s2"}                       \* socket ids of this node's clients
PeerHostId == "px"                        \* a socket id handed out by the peer node
Names == {"Alice", "Bob"}                 \* player names clients supply
RoomNames == {"R1"}                       \* room names clients supply
Passwords == {"", "pw"}                   \* "" is the absent password
ThisServerId == "server_a"
PeerServerId == "server_b"
ServerIds == {ThisServerId, PeerServerId}

MaxTime == 2       \* timestamps range over 1..MaxTime
MaxGoals == 5      \* goals the tick loop scores per match
MaxInflight == 1   \* join-room handlers suspended on a Redis call at one time
MaxMsgs == 2       \* replicated state messages waiting for delivery in SpecRepl
MaxTicks == 2      \* steps of the tick loop in SpecPhysics

MaxNameLength == 20
WinScore == 5          \* the threshold of Room.updateGamePhysics
LegacyWinScore == 10   \* the threshold of Room.updateGame
Speed == 500           \* the ball's speed after a serve

VARIABLES
  rooms,       \* RoomService.rooms: room name -> Room
  players,     \* RoomService.players: socket id -> Player
  joins,       \* per socket: the join-room handler suspended on a Redis call
  store,       \* Redis keys room:<name>:metadata -> roomData
  sio,         \* socket.io rooms each socket has joined
  alive,       \* sockets still connected
  subscribed,  \* room names whose Redis channels this node listens to
  now,         \* Date.now()
  out,         \* what the last handler emitted: an error, room-deleted, game events
  pending,     \* SpecRepl: state messages not yet delivered
  sent         \* SpecRepl, SpecMeta: the inputs the run started from

vars == <<rooms, players, joins, store, sio, alive, subscribed, now, out, pending, sent>>

\* ------------------------------------------------------------ maps
EmptyMap == [k \in {} |-> k]
MapPut(m, key, v) == [k \in (DOMAIN m) \cup {key} |-> IF k = key THEN v ELSE m[k]]
MapDel(m, key) == [k \in (DOMAIN m) \ {key} |-> m[k]]

\* ------------------------------------------------------------ data model
\* new Room(name, password, hostId, hostName); gameState is <<>> (null) or <<state>>
Room(name, password, hostId, hostName) ==
  [name |-> name, password |-> password, hostId |-> hostId, hostName |-> hostName,
   players |-> EmptyMap, guests |-> EmptyMap,
   gameState |-> <<>>, isGameActive |-> FALSE, selectedPlayers |-> <<>>]

\* new Player(id, name, room): isHost = false
Player(name, room) == [name |-> name, room |-> room, isHost |-> FALSE]

LiveEntry == [live |-> TRUE, name |-> "", isHost |-> FALSE]
OrphanEntry(p) == [live |-> FALSE, name |-> p.name, isHost |-> p.isHost]

Kinds == {"players", "guests"}

\* The Player object a room map holds under id i.
MemberObj(reg, r, kind, i) ==
  LET m == reg.rooms[r][kind][i]
  IN IF m.live
       THEN [id |-> i, name |-> reg.players[i].name, isHost |-> reg.players[i].isHost]
       ELSE [id |-> i, name |-> m.name, isHost |-> m.isHost]

\* [...room.players.values(), ...room.guests.values()], each tagged with its map
MemberObjs(reg, r) ==
  UNION {{<<kind, MemberObj(reg, r, kind, i)>> : i \in DOMAIN reg.rooms[r][kind]} : kind \in Kinds}

MemberIds(room) == (DOMAIN room.players) \cup (DOMAIN room.guests)

\* The table stops holding the object it has under id i (players.set with a new
\* object, or players.delete): the room entry that was this object keeps its values.
Detach(reg, i) ==
  IF i \notin DOMAIN reg.players THEN reg
  ELSE LET p == reg.players[i]
           det(m) == IF i \in DOMAIN m /\ m[i].live
                       THEN [m EXCEPT ![i] = OrphanEntry(p)] ELSE m
       IN IF p.room \notin DOMAIN reg.rooms THEN reg
          ELSE [reg EXCEPT !.rooms[p.room].players = det(@),
                           !.rooms[p.room].guests = det(@)]

\* this.players.set(id, player)
TableSet(reg, i, p) == [Detach(reg, i) EXCEPT !.players = MapPut(@, i, p)]

\* this.players.delete(id)
TableDelete(reg, i) == [Detach(reg, i) EXCEPT !.players = MapDel(@, i)]

\* room.removePlayer(playerId)
RemovePlayer(reg, r, i) ==
  IF r \notin DOMAIN reg.rooms THEN reg
  ELSE [reg EXCEPT !.rooms[r].players = MapDel(@, i), !.rooms[r].guests = MapDel(@, i)]

\* str.length
Length(str) == Len(str)

Ok(reg) == [err |-> "", reg |-> reg]
Fail(reg, msg) == [err |-> msg, reg |-> reg]

\* ------------------------------------------------------------ RoomService
\* player.setHost(v) on the object the table holds under id i
SetHost(reg, i, v) == [reg EXCEPT !.players[i].isHost = v]

\* ensureSingleHost that clears no flag
ensureSingleHostSkipped(reg, roomName) == reg

ensureSingleHost(reg, roomName) ==
  IF roomName \notin DOMAIN reg.rooms THEN reg
  ELSE LET room == reg.rooms[roomName]
           clr(m) == [i \in DOMAIN m |->
                        IF m[i].live THEN m[i] ELSE [m[i] EXCEPT !.isHost = FALSE]]
           liveIds == {i \in DOMAIN room.players : room.players[i].live}
                        \cup {i \in DOMAIN room.guests : room.guests[i].live}
       IN [rooms |-> [reg.rooms EXCEPT ![roomName].players = clr(@),
                                       ![roomName].guests = clr(@)],
           players |-> [i \in DOMAIN reg.players |->
                          IF i \in liveIds \/ reg.players[i].room = roomName
                            THEN [reg.players[i] EXCEPT !.isHost = FALSE]
                            ELSE reg.players[i]]]

validateRoomHostStatus(reg, roomName) ==
  IF roomName \notin DOMAIN reg.rooms THEN reg
  ELSE LET hosts == {m \in MemberObjs(reg, roomName) : m[2].isHost}
       IN IF Cardinality(hosts) > 1 THEN ensureSingleHost(reg, roomName) ELSE reg

NameTakenBy(reg, name, id) ==
  \E j \in DOMAIN reg.players : reg.players[j].name = name /\ j # id

performNormalJoin(reg, roomName, password, playerId, playerName) ==
  IF Length(playerName) > MaxNameLength THEN Fail(reg, "NameTooLong")
  ELSE IF roomName \notin DOMAIN reg.rooms THEN Fail(reg, "RoomNotFound")
  ELSE IF reg.rooms[roomName].password # "" /\ reg.rooms[roomName].password # password
    THEN Fail(reg, "WrongPassword")
  ELSE IF NameTakenBy(reg, playerName, playerId) THEN Fail(reg, "NameTaken")
  ELSE LET isOriginalHost == reg.rooms[roomName].hostName = playerName
           r1 == IF isOriginalHost THEN ensureSingleHost(reg, roomName) ELSE reg
           player == [Player(playerName, roomName) EXCEPT !.isHost = isOriginalHost]
           r2 == TableSet(r1, playerId, player)
           kind == IF isOriginalHost THEN "players" ELSE "guests"
       IN Ok([r2 EXCEPT !.rooms[roomName][kind] = MapPut(@, playerId, LiveEntry)])

\* the synchronous part of createRoom, up to the await on publishRoomMetadata
createRoom(reg, roomName, password, hostId, hostName) ==
  IF Length(roomName) > MaxNameLength THEN Fail(reg, "RoomNameTooLong")
  ELSE IF Length(hostName) > MaxNameLength THEN Fail(reg, "NameTooLong")
  ELSE IF roomName \in DOMAIN reg.rooms THEN Fail(reg, "RoomExists")
  ELSE IF NameTakenBy(reg, hostName, hostId) THEN Fail(reg, "NameTaken")
  ELSE LET host == [Player(hostName, roomName) EXCEPT !.isHost = TRUE]
           r1 == TableSet(reg, hostId, host)
           room == [Room(roomName, password, hostId, hostName)
                      EXCEPT !.players = MapPut(@, hostId, LiveEntry)]
       IN Ok([r1 EXCEPT !.rooms = MapPut(@, roomName, room)])

\* createRoomWithHostRestoration after getRoomMetadataFromRedis answered; meta is
\* <<>> (null) or <<roomData>>
createRoomWithHostRestoration(reg, roomName, password, playerId, playerName, meta) ==
  IF meta = <<>> THEN Fail(reg, "MetaMissing")
  ELSE LET r1 == TableSet(reg, playerId, Player(playerName, roomName))
           room == [Room(roomName, password, meta[1].hostId, meta[1].hostName)
                      EXCEPT !.guests = MapPut(@, playerId, LiveEntry)]
       IN Ok([r1 EXCEPT !.rooms = MapPut(@, roomName, room)])

leaveRoom(reg, playerId) ==
  IF playerId \notin DOMAIN reg.players THEN reg
  ELSE LET player == reg.players[playerId]
           roomName == player.room
       IN IF player.isHost
            THEN LET r1 == RemovePlayer(SetHost(reg, playerId, FALSE), roomName, playerId)
                     r2 == [r1 EXCEPT !.rooms = MapDel(@, roomName)]
                 IN TableDelete(r2, playerId)
            ELSE LET r1 == IF roomName \in DOMAIN reg.rooms
                             THEN validateRoomHostStatus(
                                    RemovePlayer(reg, roomName, playerId), roomName)
                             ELSE reg
                 IN TableDelete(r1, playerId)

\* a started match that already has its first selected player as winner
StartedStateWithWinner(ids, t) ==
  [players |-> ids, scores |-> [player1 |-> 0, player2 |-> 0], ball |-> "center",
   paddles |-> [player1 |-> 250, player2 |-> 250], winner |-> ids[1], timestamp |-> t]

\* room.startGame(selectedPlayers) at Date.now() = t
StartedState(ids, t) ==
  [players |-> ids, scores |-> [player1 |-> 0, player2 |-> 0], ball |-> "center",
   paddles |-> [player1 |-> 250, player2 |-> 250], winner |-> "", timestamp |-> t]

SelectKnown(reg, ids) == SelectSeq(ids, LAMBDA id : id \in DOMAIN reg.players)

\* startGame without the isHost test on the requester
startGameByAnyone(reg, roomName, hostId, selectedPlayerIds, t) ==
  IF roomName \notin DOMAIN reg.rooms THEN Fail(reg, "RoomNotFound")
  ELSE
    LET selectedPlayers == SelectKnown(reg, selectedPlayerIds)
    IN IF hostId \notin DOMAIN reg.players THEN Fail(reg, "PlayerNotFound")
       ELSE IF reg.players[hostId].room # roomName THEN Fail(reg, "NotInSpecifiedRoom")
       ELSE IF Len(selectedPlayers) # 2 THEN Fail(reg, "WrongPlayerCount")
       ELSE IF \E k \in 1..2 : reg.players[selectedPlayers[k]].room # roomName
         THEN Fail(reg, "PlayerNotInRoom")
       ELSE Ok([reg EXCEPT !.rooms[roomName].gameState = <<StartedState(selectedPlayers, t)>>,
                           !.rooms[roomName].isGameActive = TRUE])

startGame(reg, roomName, hostId, selectedPlayerIds, t) ==
  IF roomName \notin DOMAIN reg.rooms THEN Fail(reg, "RoomNotFound")
  ELSE
    LET hostName == reg.rooms[roomName].hostName
        byName == {j \in DOMAIN reg.players :
                     reg.players[j].room = roomName /\ reg.players[j].name = hostName}
        req == IF hostId \in DOMAIN reg.players THEN <<hostId>>
               ELSE IF byName # {} THEN <<CHOOSE j \in byName : TRUE>> ELSE <<>>
        r1 == IF req # <<>> /\ ~reg.players[req[1]].isHost
                   /\ reg.players[req[1]].name = hostName
                THEN SetHost(ensureSingleHost(reg, roomName), req[1], TRUE)
                ELSE reg
        selectedPlayers == SelectKnown(r1, selectedPlayerIds)
    IN IF req = <<>> THEN Fail(r1, "PlayerNotFound")
       ELSE IF ~r1.players[req[1]].isHost THEN Fail(r1, "Unauthorized")
       ELSE IF r1.players[req[1]].room # roomName THEN Fail(r1, "NotInSpecifiedRoom")
       ELSE IF Len(selectedPlayers) # 2 THEN Fail(r1, "WrongPlayerCount")
       ELSE IF \E k \in 1..2 : r1.players[selectedPlayers[k]].room # roomName
         THEN Fail(r1, "PlayerNotInRoom")
       ELSE Ok([r1 EXCEPT !.rooms[roomName].gameState = <<StartedState(selectedPlayers, t)>>,
                          !.rooms[roomName].isGameActive = TRUE])

backToLobby(reg, roomName, playerId) ==
  IF roomName \notin DOMAIN reg.rooms THEN Fail(reg, "RoomNotFound")
  ELSE IF playerId \notin DOMAIN reg.players THEN Fail(reg, "PlayerNotFound")
  ELSE Ok([reg EXCEPT !.rooms[roomName].gameState = <<>>,
                      !.rooms[roomName].isGameActive = FALSE])

updateSelectedPlayers(reg, roomName, selectedPlayers) ==
  IF roomName \in DOMAIN reg.rooms
    THEN [reg EXCEPT !.rooms[roomName].selectedPlayers = selectedPlayers]
    ELSE reg

deleteRoom(reg, roomName) == [reg EXCEPT !.rooms = MapDel(@, roomName)]

createRoomFromMetadata(reg, roomName, metadata) ==
  IF roomName \in DOMAIN reg.rooms THEN reg
  ELSE LET room == Room(roomName, metadata.password, metadata.hostId, metadata.hostName)
           restored == IF metadata.isGameActive
                         THEN [room EXCEPT !.isGameActive = TRUE,
                                           !.selectedPlayers = metadata.selectedPlayers]
                         ELSE room
       IN [reg EXCEPT !.rooms = MapPut(@, roomName, restored)]

\* the roomData publishRoomMetadata builds
roomData(room) ==
  [name |-> room.name, hostName |-> room.hostName, hostId |-> room.hostId,
   password |-> room.password, isGameActive |-> room.isGameActive,
   selectedPlayers |-> room.selectedPlayers]

\* one entry of forceCleanupPlayer: the player under id, then its room
CleanupEntry(reg, id) ==
  LET player == reg.players[id]
      roomName == player.room
      r1 == IF player.isHost
              THEN ensureSingleHost(SetHost(reg, id, FALSE), roomName) ELSE reg
      r2 == TableDelete(r1, id)
  IN IF roomName \notin DOMAIN r2.rooms THEN r2
     ELSE IF player.isHost
       THEN deleteRoom(RemovePlayer(r2, roomName, id), roomName)
       ELSE validateRoomHostStatus(RemovePlayer(r2, roomName, id), roomName)

RECURSIVE CleanupEntries(_, _)
CleanupEntries(reg, ids) ==
  IF ids = {} THEN reg
  ELSE LET id == CHOOSE j \in ids : TRUE
       IN CleanupEntries(CleanupEntry(reg, id), ids \ {id})

forceCleanupPlayer(reg, playerId, playerName) ==
  LET r1 == IF playerId \in DOMAIN reg.players THEN CleanupEntry(reg, playerId) ELSE reg
      playersWithSameName ==
        {j \in DOMAIN r1.players : r1.players[j].name = playerName /\ j # playerId}
  IN CleanupEntries(r1, playersWithSameName)

\* ------------------------------------------------------------ inputs
RECURSIVE SeqsUpTo(_, _)
SeqsUpTo(S, n) ==
  IF n = 0 THEN {<<>>}
  ELSE LET shorter == SeqsUpTo(S, n - 1)
       IN shorter \cup {Append(q, x) : q \in {t \in shorter : Len(t) = n - 1}, x \in S}

\* start-game payloads: every list of at most two ids, and two of three
IdLists == SeqsUpTo(Ids, 2) \cup {<<"s1", "s1", "s2">>, <<"s1", "s2", "s2">>}
Selections == {<<>>, <<"s1", "s2">>}                 \* update-selected-players payloads
JoinNames(s) == IF s = "s1" THEN {"Alice"} ELSE Names  \* the names each client joins under
JoinPasswords == {""}                                \* the passwords clients join with
PaddleInputs == {[player1 |-> 250, player2 |-> 250], [player1 |-> 100, player2 |-> 400]}

\* game-update payloads: paddles (or none), and the ball and scores a client adds
GameUpdates ==
  [paddles : {<<>>} \cup {<<p>> : p \in PaddleInputs},
   ball : {"center", "corner"},
   scores : {[player1 |-> 0, player2 |-> 0], [player1 |-> WinScore, player2 |-> 0]}]

\* roomData a peer node publishes for room r
PeerData(r) ==
  {[name |-> r, hostName |-> h, hostId |-> PeerHostId, password |-> pw,
    isGameActive |-> FALSE, selectedPlayers |-> <<>>] : h \in Names, pw \in Passwords}

\* game states a peer node publishes
PeerStates ==
  {[StartedState(<<PeerHostId, "py">>, 0) EXCEPT !.ball = "field"],
   [StartedState(<<PeerHostId, "py">>, 0) EXCEPT !.winner = "player1",
       !.scores = [player1 |-> WinScore, player2 |-> 0]]}

StateMsgs ==
  [state : PeerStates, timestamp : 1..MaxTime, serverId : ServerIds]

\* the state messages the registry specification delivers: one a peer published
\* after every local Date.now(), and this node's own echo of it
LateStateMsgs ==
  {m \in StateMsgs : m.timestamp = MaxTime /\ m.state.winner = ""}

\* ------------------------------------------------------------ state
Reg == [rooms |-> rooms, players |-> players]

Idle == [pc |-> "idle", roomName |-> "", password |-> "", playerName |-> "",
         exists |-> FALSE, meta |-> <<>>]

Quiet == [err |-> "", deleted |-> {}, events |-> {}]
Error(msg) == [Quiet EXCEPT !.err = msg]
Events(evs) == [Quiet EXCEPT !.events = evs]

Init ==
  /\ rooms = EmptyMap
  /\ players = EmptyMap
  /\ joins = [s \in Ids |-> Idle]
  /\ store = EmptyMap
  /\ sio = [s \in Ids |-> {}]
  /\ alive = [s \in Ids |-> TRUE]
  /\ subscribed = {}
  /\ now = 1
  /\ out = Quiet
  /\ pending = {}
  /\ sent = <<>>

SetReg(reg) == rooms' = reg.rooms /\ players' = reg.players

\* ------------------------------------------------------------ join-room
\* handleJoinRoom -> joinRoomWithFailoverCheck, up to its first await
HandleJoinRoom(s, roomName, password, playerName) ==
  /\ alive[s] /\ joins[s].pc = "idle"
  /\ IF roomName \in DOMAIN rooms
       THEN LET res == performNormalJoin(Reg, roomName, password, s, playerName)
            IN /\ SetReg(res.reg)
               /\ sio' = IF res.err = "" THEN [sio EXCEPT ![s] = @ \cup {roomName}] ELSE sio
               /\ out' = Error(res.err)
               /\ UNCHANGED joins
       ELSE /\ Cardinality({t \in Ids : joins[t].pc # "idle"}) < MaxInflight
            /\ joins' = [joins EXCEPT ![s] =
                           [pc |-> "exists", roomName |-> roomName, password |-> password,
                            playerName |-> playerName,
                            exists |-> roomName \in DOMAIN store, meta |-> <<>>]]
            /\ out' = Quiet
            /\ UNCHANGED <<rooms, players, sio>>
  /\ UNCHANGED <<store, alive, subscribed, now, pending, sent>>

\* checkRoomExistsInRedis answered: createRoomWithHostRestoration up to its await on
\* getRoomMetadataFromRedis, or createRoom up to its await on publishRoomMetadata
JoinExistsReply(s) ==
  LET j == joins[s] IN
  /\ j.pc = "exists"
  /\ IF j.exists
       THEN IF j.roomName \in DOMAIN rooms
              THEN /\ joins' = [joins EXCEPT ![s] = Idle]
                   /\ out' = Error("NetworkIssue")
                   /\ UNCHANGED <<rooms, players, store>>
              ELSE /\ joins' = [joins EXCEPT ![s] =
                                  [j EXCEPT !.pc = "getmeta",
                                            !.meta = IF j.roomName \in DOMAIN store
                                                       THEN <<store[j.roomName]>> ELSE <<>>]]
                   /\ out' = Quiet
                   /\ UNCHANGED <<rooms, players, store>>
       ELSE LET res == createRoom(Reg, j.roomName, j.password, s, j.playerName)
            IN IF res.err # ""
                 THEN /\ joins' = [joins EXCEPT ![s] = Idle]
                      /\ out' = Error("NetworkIssue")
                      /\ UNCHANGED <<rooms, players, store>>
                 ELSE /\ SetReg(res.reg)
                      /\ store' = MapPut(store, j.roomName, roomData(res.reg.rooms[j.roomName]))
                      /\ joins' = [joins EXCEPT ![s] =
                                     [Idle EXCEPT !.pc = "publish", !.roomName = j.roomName,
                                                  !.playerName = j.playerName]]
                      /\ out' = Quiet
  /\ UNCHANGED <<sio, alive, subscribed, now, pending, sent>>

\* getRoomMetadataFromRedis answered: the rest of createRoomWithHostRestoration, up to
\* its await on publishRoomMetadata
JoinMetaReply(s) ==
  LET j == joins[s]
      res == createRoomWithHostRestoration(Reg, j.roomName, j.password, s, j.playerName, j.meta)
  IN
  /\ j.pc = "getmeta"
  /\ IF res.err # ""
       THEN /\ joins' = [joins EXCEPT ![s] = Idle]
            /\ out' = Error("NetworkIssue")
            /\ UNCHANGED <<rooms, players, store>>
       ELSE /\ SetReg(res.reg)
            /\ store' = MapPut(store, j.roomName, roomData(res.reg.rooms[j.roomName]))
            /\ joins' = [joins EXCEPT ![s] =
                           [Idle EXCEPT !.pc = "publish", !.roomName = j.roomName,
                                        !.playerName = j.playerName]]
            /\ out' = Quiet
  /\ UNCHANGED <<sio, alive, subscribed, now, pending, sent>>

\* publishRoomMetadata resolved: handleJoinRoom emits room-joined and joins the
\* socket.io room
JoinPublished(s) ==
  /\ joins[s].pc = "publish"
  /\ joins' = [joins EXCEPT ![s] = Idle]
  /\ sio' = IF alive[s] THEN [sio EXCEPT ![s] = @ \cup {joins[s].roomName}] ELSE sio
  /\ out' = Quiet
  /\ UNCHANGED <<rooms, players, store, alive, subscribed, now, pending, sent>>

\* ------------------------------------------------------------ start-game
\* RoomController.handleStartGame for socket s at Date.now() = t: the error it
\* emits ("" when it emits game-started) and the registry it leaves
handleStartGame(reg, s, selectedPlayerIds, t) ==
  IF s \notin DOMAIN reg.players THEN Fail(reg, "PlayerNotFound")
  ELSE LET roomName == reg.players[s].room
           res == startGame(reg, roomName, s, selectedPlayerIds, t)
       IN IF roomName \notin DOMAIN reg.rooms THEN Fail(reg, "RoomNotFound")
          ELSE IF res.err # "" THEN res
          ELSE Ok([res.reg EXCEPT !.rooms[roomName].selectedPlayers = <<>>])

\* the start-game event: handleStartGame, then server.ts subscribes the room's
\* channels when the socket has a player entry
HandleStartGame(s, selectedPlayerIds) ==
  /\ alive[s]
  /\ LET res == handleStartGame(Reg, s, selectedPlayerIds, now) IN
       /\ SetReg(res.reg)
       /\ out' = IF res.err = "" THEN Events({"game-started"}) ELSE Error(res.err)
  /\ subscribed' = IF s \in DOMAIN players THEN subscribed \cup {players[s].room}
                   ELSE subscribed
  /\ UNCHANGED <<joins, store, sio, alive, now, pending, sent>>

\* ------------------------------------------------------------ game-update
\* handleGameUpdate that also takes the scores the message carries
handleGameUpdateWithScores(reg, s, data) ==
  IF s \notin DOMAIN reg.players THEN Ok(reg)
  ELSE LET roomName == reg.players[s].room IN
    IF roomName \notin DOMAIN reg.rooms \/ ~reg.rooms[roomName].isGameActive
      THEN Fail(reg, "GameNotActive")
    ELSE IF data.paddles = <<>> THEN Ok(reg)
    ELSE IF reg.rooms[roomName].gameState = <<>> THEN Fail(reg, "TypeError")
    ELSE Ok([reg EXCEPT !.rooms[roomName].gameState[1].paddles = data.paddles[1],
                        !.rooms[roomName].gameState[1].scores = data.scores])

\* RoomController.handleGameUpdate(socket s, data): the error it emits ("" when
\* none) and the registry it leaves; data.paddles is <<>> (absent) or <<paddles>>
handleGameUpdate(reg, s, data) ==
  IF s \notin DOMAIN reg.players THEN Ok(reg)
  ELSE LET roomName == reg.players[s].room IN
    IF roomName \notin DOMAIN reg.rooms \/ ~reg.rooms[roomName].isGameActive
      THEN Fail(reg, "GameNotActive")
    ELSE IF data.paddles = <<>> THEN Ok(reg)
    ELSE IF reg.rooms[roomName].gameState = <<>> THEN Fail(reg, "TypeError")
    ELSE Ok([reg EXCEPT !.rooms[roomName].gameState[1].paddles = data.paddles[1]])

HandleGameUpdate(s, data) ==
  /\ alive[s]
  /\ s \in DOMAIN players
  /\ LET res == handleGameUpdate(Reg, s, data) IN
       /\ SetReg(res.reg)
       /\ out' = Error(res.err)
  /\ UNCHANGED <<joins, store, sio, alive, subscribed, now, pending, sent>>

\* ------------------------------------------------------------ back-to-lobby
HandleBackToLobby(s) ==
  /\ alive[s]
  /\ s \in DOMAIN players
  /\ LET res == backToLobby(Reg, players[s].room, s) IN
       /\ SetReg(res.reg)
       /\ out' = Error(res.err)
  /\ UNCHANGED <<joins, store, sio, alive, subscribed, now, pending, sent>>

\* ------------------------------------------------------------ update-selected-players
\* the registry after handleUpdateSelectedPlayers(socket s, {selectedPlayers})
handleUpdateSelectedPlayers(reg, s, selectedPlayers) ==
  IF s \notin DOMAIN reg.players THEN reg
  ELSE updateSelectedPlayers(reg, reg.players[s].room, selectedPlayers)

HandleUpdateSelectedPlayers(s, selectedPlayers) ==
  /\ alive[s]
  /\ s \in DOMAIN players
  /\ SetReg(handleUpdateSelectedPlayers(Reg, s, selectedPlayers))
  /\ out' = Quiet
  /\ UNCHANGED <<joins, store, sio, alive, subscribed, now, pending, sent>>

\* ------------------------------------------------------------ leave-room / disconnect
\* room.gameState.winner = otherPlayer.id when a match player disconnects
WinnerOnDisconnect(room, s) ==
  IF room.isGameActive /\ room.gameState # <<>>
     /\ (\E k \in 1..Len(room.gameState[1].players) : room.gameState[1].players[k] = s)
     /\ (\E k \in 1..Len(room.gameState[1].players) : room.gameState[1].players[k] # s)
    THEN LET ps == room.gameState[1].players
             k == CHOOSE n \in 1..Len(ps) : ps[n] # s /\ \A m \in 1..(n - 1) : ps[m] = s
         IN [room EXCEPT !.gameState[1].winner = ps[k]]
    ELSE room

\* the registry after handleDisconnect(socket s)
handleDisconnect(reg, s) ==
  IF s \notin DOMAIN reg.players THEN leaveRoom(reg, s)
  ELSE LET player == reg.players[s]
           roomName == player.room
       IN IF roomName \notin DOMAIN reg.rooms
            THEN forceCleanupPlayer(leaveRoom(reg, s), s, player.name)
            ELSE LET r1 == [reg EXCEPT !.rooms[roomName] = WinnerOnDisconnect(@, s)]
                     room == r1.rooms[roomName]
                     isHostDisconnect == player.name = room.hostName \/ s = room.hostId
                     r2 == IF isHostDisconnect THEN deleteRoom(r1, roomName)
                           ELSE leaveRoom(r1, s)
                 IN forceCleanupPlayer(r2, s, player.name)

\* the sockets handleDisconnect(socket s) sends room-deleted to; closing tells
\* whether s itself is gone (the disconnect event) or still there (leave-room)
RoomDeletedTo(s, closing) ==
  IF s \in DOMAIN players /\ players[s].room \in DOMAIN rooms
     /\ (players[s].name = rooms[players[s].room].hostName
          \/ s = rooms[players[s].room].hostId)
    THEN {t \in Ids \ {s} : alive[t] /\ players[s].room \in sio[t]}
           \cup (IF closing THEN {} ELSE {s})
    ELSE {}

\* the leave-room event
HandleLeaveRoom(s) ==
  /\ alive[s]
  /\ SetReg(handleDisconnect(Reg, s))
  /\ out' = [Quiet EXCEPT !.deleted = RoomDeletedTo(s, FALSE)]
  /\ UNCHANGED <<joins, store, sio, alive, subscribed, now, pending, sent>>

\* the disconnect event: the socket is gone and has left its socket.io rooms
HandleDisconnect(s) ==
  /\ alive[s]
  /\ SetReg(handleDisconnect(Reg, s))
  /\ out' = [Quiet EXCEPT !.deleted = RoomDeletedTo(s, TRUE)]
  /\ alive' = [alive EXCEPT ![s] = FALSE]
  /\ sio' = [sio EXCEPT ![s] = {}]
  /\ UNCHANGED <<joins, store, subscribed, now, pending, sent>>

\* ------------------------------------------------------------ tick loop
Goals(gs) == gs.scores.player1 + gs.scores.player2

\* Room.updateGamePhysics at Date.now() = t.  The ball's flight is abstracted to
\* what the step's branches do: o = "move" (no goal line crossed), "goalBy1"
\* (ball.x > 800) or "goalBy2" (ball.x < 0).
updateGamePhysics(room, o, t) ==
  IF room.gameState = <<>> \/ ~room.isGameActive THEN room
  ELSE LET gs == room.gameState[1]
           scores == [player1 |-> gs.scores.player1 + (IF o = "goalBy1" THEN 1 ELSE 0),
                      player2 |-> gs.scores.player2 + (IF o = "goalBy2" THEN 1 ELSE 0)]
           winner == IF scores.player1 >= WinScore THEN "player1"
                     ELSE IF scores.player2 >= WinScore THEN "player2"
                     ELSE gs.winner
       IN [room EXCEPT !.gameState =
             <<[gs EXCEPT !.scores = scores, !.winner = winner, !.timestamp = t,
                          !.ball = IF o = "move" THEN "field" ELSE "center"]>>]

\* Ticking without the test for a winner
TickingWithWinner(room) == room.isGameActive

\* the rooms the setInterval callback of startGameLoop steps
Ticking(room) ==
  room.isGameActive /\ (room.gameState = <<>> \/ room.gameState[1].winner = "")

TickOutcomes(room) ==
  IF room.gameState # <<>> /\ Goals(room.gameState[1]) < MaxGoals
    THEN {"move", "goalBy1", "goalBy2"} ELSE {"move"}

Tick ==
  /\ \E r \in DOMAIN rooms : rooms[r].isGameActive
  /\ \E o \in [DOMAIN rooms -> {"move", "goalBy1", "goalBy2"}] :
       /\ \A r \in DOMAIN rooms : o[r] \in TickOutcomes(rooms[r])
       /\ rooms' = [r \in DOMAIN rooms |->
                      IF Ticking(rooms[r]) THEN updateGamePhysics(rooms[r], o[r], now)
                      ELSE rooms[r]]
  /\ out' = Quiet
  /\ UNCHANGED <<players, joins, store, sio, alive, subscribed, now, pending, sent>>

\* server.ts publish interval, one room of its loop: stamp, publish, emit
PublishGameState(r) ==
  /\ r \in DOMAIN rooms
  /\ rooms[r].isGameActive /\ rooms[r].gameState # <<>>
  /\ rooms' = [rooms EXCEPT ![r].gameState[1].timestamp = now]
  /\ out' = Events({"game-update"})
  /\ UNCHANGED <<players, joins, store, sio, alive, subscribed, now, pending, sent>>

Advance ==
  /\ now < MaxTime
  /\ now' = now + 1
  /\ out' = Quiet
  /\ UNCHANGED <<rooms, players, joins, store, sio, alive, subscribed, pending, sent>>

\* ------------------------------------------------------------ replication
\* updateRoomState that also takes a message as old as the held state
updateRoomStateNotOlder(room, msg) ==
  LET localTimestamp == IF room.gameState = <<>> THEN 0 ELSE room.gameState[1].timestamp
  IN IF msg.serverId # ThisServerId /\ msg.timestamp >= localTimestamp
       THEN [room EXCEPT !.gameState = <<[msg.state EXCEPT !.timestamp = msg.timestamp]>>,
                         !.isGameActive = TRUE]
       ELSE room

\* updateRoomState that takes every message of another node
updateRoomStateAlways(room, msg) ==
  IF msg.serverId # ThisServerId
    THEN [room EXCEPT !.gameState = <<[msg.state EXCEPT !.timestamp = msg.timestamp]>>,
                      !.isGameActive = TRUE]
    ELSE room

\* RoomController.updateRoomState(roomName, msg) on a room
updateRoomState(room, msg) ==
  LET remoteTimestamp == msg.timestamp
      localTimestamp == IF room.gameState = <<>> THEN 0 ELSE room.gameState[1].timestamp
  IN IF (remoteTimestamp > localTimestamp \/ room.gameState = <<>>)
        /\ msg.serverId # ThisServerId /\ remoteTimestamp > localTimestamp
       THEN [room EXCEPT !.gameState = <<[msg.state EXCEPT !.timestamp = remoteTimestamp]>>,
                         !.isGameActive = TRUE]
       ELSE room

\* the subscribeToGameState callback on a message of room r's state channel
OnStateMessage(r, msg) ==
  /\ r \in subscribed
  /\ r \in DOMAIN rooms
  /\ rooms' = [rooms EXCEPT ![r] = updateRoomState(@, msg)]
  /\ out' = IF rooms' # rooms THEN Events({"game-update"}) ELSE Quiet
  /\ UNCHANGED <<players, joins, store, sio, alive, subscribed, now, sent>>

UpdateRoomState(r, msg) == OnStateMessage(r, msg) /\ UNCHANGED pending

\* SpecRepl: one of the waiting messages arrives
DeliverState(r, msg) ==
  /\ msg \in pending
  /\ pending' = pending \ {msg}
  /\ OnStateMessage(r, msg)

\* RoomController.updateRoomMetadata(roomName, {roomData, serverId})
updateRoomMetadata(reg, roomName, data, serverId) ==
  IF roomName \notin DOMAIN reg.rooms
    THEN [reg EXCEPT !.rooms =
            MapPut(@, roomName, Room(data.name, data.password, data.hostId, data.hostName))]
    ELSE IF serverId # ThisServerId /\ data.hostName # reg.rooms[roomName].hostName
      THEN [reg EXCEPT !.rooms[roomName].hostName = data.hostName]
      ELSE reg

MetadataMsgs(r) ==
  {[roomData |-> d, serverId |-> PeerServerId] : d \in PeerData(r)}
    \cup (IF r \in DOMAIN store
            THEN {[roomData |-> store[r], serverId |-> ThisServerId]} ELSE {})

UpdateRoomMetadata(r, msg) ==
  /\ r \in subscribed
  /\ SetReg(updateRoomMetadata(Reg, r, msg.roomData, msg.serverId))
  /\ out' = Quiet
  /\ UNCHANGED <<joins, store, sio, alive, subscribed, now, pending, sent>>

\* RoomController.createRoomFromMetadata: materialize and subscribe
CreateRoomFromMetadata(r, metadata) ==
  /\ r \notin DOMAIN rooms
  /\ SetReg(createRoomFromMetadata(Reg, r, metadata))
  /\ subscribed' = subscribed \cup {r}
  /\ out' = Quiet
  /\ UNCHANGED <<joins, store, sio, alive, now, pending, sent>>

\* ------------------------------------------------------------ specification
\* The registry of one node: clients join, start and end matches, select,
\* leave and disconnect while the peer's state and metadata messages arrive.
Next ==
  \/ \E s \in Ids, r \in RoomNames, pw \in JoinPasswords :
       \E n \in JoinNames(s) : HandleJoinRoom(s, r, pw, n)
  \/ \E s \in Ids : JoinExistsReply(s)
  \/ \E s \in Ids : JoinMetaReply(s)
  \/ \E s \in Ids : JoinPublished(s)
  \/ \E s \in Ids, ids \in IdLists : HandleStartGame(s, ids)
  \/ \E s \in Ids : HandleBackToLobby(s)
  \/ \E s \in Ids, sel \in Selections : HandleUpdateSelectedPlayers(s, sel)
  \/ \E s \in Ids : HandleLeaveRoom(s)
  \/ \E s \in Ids : HandleDisconnect(s)
  \/ \E r \in RoomNames, m \in LateStateMsgs : UpdateRoomState(r, m)
  \/ \E r \in RoomNames : \E m \in MetadataMsgs(r) : UpdateRoomMetadata(r, m)

Spec == Init /\ [][Next]_vars

\* ------------------------------------------------------------ match runs
\* A lobby of two on this node, Alice hosting and Bob her guest.
Lobby ==
  [rooms |-> [r \in {"R1"} |->
                [Room("R1", "", "s1", "Alice") EXCEPT
                   !.players = MapPut(EmptyMap, "s1", LiveEntry),
                   !.guests = MapPut(EmptyMap, "s2", LiveEntry)]],
   players |-> [i \in Ids |->
                  [Player(IF i = "s1" THEN "Alice" ELSE "Bob", "R1") EXCEPT
                     !.isHost = (i = "s1")]]]

\* Alice has just started a match against Bob
InitGame ==
  /\ rooms = [Lobby.rooms EXCEPT !["R1"].gameState = <<StartedState(<<"s1", "s2">>, 1)>>,
                                  !["R1"].isGameActive = TRUE]
  /\ players = Lobby.players
  /\ joins = [s \in Ids |-> Idle]
  /\ store = [r \in {"R1"} |-> roomData(Lobby.rooms["R1"])]
  /\ sio = [s \in Ids |-> {"R1"}]
  /\ alive = [s \in Ids |-> TRUE]
  /\ subscribed = {"R1"}
  /\ now = 1
  /\ out = Quiet
  /\ pending = {}
  /\ sent = <<>>

NextGame ==
  \/ Tick
  \/ \E r \in RoomNames : PublishGameState(r)
  \/ Advance
  \/ \E s \in Ids, d \in GameUpdates : HandleGameUpdate(s, d)
  \/ \E s \in Ids : HandleBackToLobby(s)
  \/ \E s \in Ids : HandleStartGame(s, <<"s1", "s2">>)
  \/ \E r \in RoomNames, m \in StateMsgs : UpdateRoomState(r, m)

SpecGame == InitGame /\ [][NextGame]_vars

\* ------------------------------------------------------------ registry properties
Hosts(reg, r) == {m \in MemberObjs(reg, r) : m[2].isHost}

\* socket s has a player entry for the registered room r and is in r's maps
IsMember(s, r) ==
  /\ r \in DOMAIN rooms
  /\ s \in DOMAIN players
  /\ players[s].room = r
  /\ s \in MemberIds(rooms[r])

HostMember(s) ==
  s \in DOMAIN players /\ IsMember(s, players[s].room) /\ players[s].isHost

NonHostMember(s) ==
  /\ s \in DOMAIN players
  /\ IsMember(s, players[s].room)
  /\ players[s].name # rooms[players[s].room].hostName
  /\ ~players[s].isHost

\* the registry reg has room r's match as it is now
MatchUntouched(reg, r) ==
  /\ r \in DOMAIN reg.rooms
  /\ reg.rooms[r].isGameActive = rooms[r].isGameActive
  /\ reg.rooms[r].gameState = rooms[r].gameState

\* the id lists naming two different members of room r
MemberPairs(r) ==
  {l \in IdLists : Len(l) = 2 /\ l[1] # l[2] /\ \A k \in 1..2 : IsMember(l[k], r)}

\* C1: in every reachable state every registered room has at most one member,
\* primary players and guests together, whose isHost flag is true.
SingleHost == \A r \in DOMAIN rooms : Cardinality(Hosts(Reg, r)) <= 1

\* the host role has moved: the room's host is not the socket that created the
\* room, and that socket is still a member, now without the flag
SingleHostWitness ==
  \E r \in DOMAIN rooms : \E h \in Hosts(Reg, r), m \in MemberObjs(Reg, r) :
    /\ h[2].id # rooms[r].hostId
    /\ m[2].id = rooms[r].hostId
    /\ ~m[2].isHost

\* C6: in every reachable state, a start-game request of a room's host that
\* carries the ids of two members of the room succeeds and leaves the room
\* active, with a game state whose players are those two ids, scores 0-0 and
\* no winner.
HostStartSucceeds ==
  \A s \in {i \in Ids : alive[i] /\ HostMember(i)} :
    \A ids \in MemberPairs(players[s].room) :
      LET res == handleStartGame(Reg, s, ids, now)
          room == res.reg.rooms[players[s].room]
      IN /\ res.err = ""
         /\ room.isGameActive
         /\ room.gameState # <<>>
         /\ room.gameState[1].players = ids
         /\ room.gameState[1].scores = [player1 |-> 0, player2 |-> 0]
         /\ room.gameState[1].winner = ""

\* a match between two different members has just been started
HostStartWitness ==
  /\ out.events = {"game-started"}
  /\ \E r \in DOMAIN rooms :
       /\ rooms[r].gameState # <<>>
       /\ rooms[r].gameState[1].players[1] # rooms[r].gameState[1].players[2]
       /\ \A k \in 1..2 : IsMember(rooms[r].gameState[1].players[k], r)

\* C7: in every reachable state, a start-game request from a member whose name
\* is not the room's hostName and whose isHost flag is false fails with
\* Unauthorized and leaves the room's isGameActive, gameState, selectedPlayers
\* and every member's isHost flag as they were.
NonHostStartRefused ==
  \A s \in {i \in Ids : alive[i] /\ NonHostMember(i)}, ids \in IdLists :
    LET r == players[s].room
        res == handleStartGame(Reg, s, ids, now)
    IN /\ res.err = "Unauthorized"
       /\ MatchUntouched(res.reg, r)
       /\ res.reg.rooms[r].selectedPlayers = rooms[r].selectedPlayers
       /\ MemberObjs(res.reg, r) = MemberObjs(Reg, r)

\* a guest of a room with a host has just been refused
NonHostStartWitness ==
  /\ out.err = "Unauthorized"
  /\ \E s \in Ids : NonHostMember(s) /\ Hosts(Reg, players[s].room) # {}

\* C8: in every reachable state, a start-game request by the host fails with
\* WrongPlayerCount whenever the id list does not hold exactly 2 ids, and with
\* PlayerNotInRoom whenever one of the ids is not a current member of the room;
\* no match is started either way.
HostStartValidated ==
  \A s \in {i \in Ids : alive[i] /\ HostMember(i)}, ids \in IdLists :
    LET r == players[s].room
        res == handleStartGame(Reg, s, ids, now)
    IN /\ Len(ids) # 2 => (res.err = "WrongPlayerCount" /\ MatchUntouched(res.reg, r))
       /\ (Len(ids) = 2 /\ \E k \in 1..2 : ~IsMember(ids[k], r))
            => (res.err = "PlayerNotInRoom" /\ MatchUntouched(res.reg, r))

\* C9: in every reachable state, once the host of a room has left or
\* disconnected the room is not registered any more and no entry of the player
\* table refers to that room.
HostGoneRoomGone ==
  \A s \in {i \in Ids : alive[i] /\ HostMember(i)} :
    LET r == players[s].room
        after == handleDisconnect(Reg, s)
    IN /\ r \notin DOMAIN after.rooms
       /\ \A j \in DOMAIN after.players : after.players[j].room # r

\* C10: in every reachable state with no join-room handler suspended, when the
\* host of a room disconnects or leaves, every other member of the room
\* connected to this node is sent room-deleted.
HostGoneMembersTold ==
  \A s \in {i \in Ids : alive[i] /\ HostMember(i)} :
    (\A u \in Ids : joins[u].pc = "idle")
    => \A closing \in BOOLEAN, t \in MemberIds(rooms[players[s].room]) \ {s} :
         alive[t] => t \in RoomDeletedTo(s, closing)

\* the sessions other than s whose table entry carries the name n
NameHolders(s, n) == {j \in DOMAIN players : j # s /\ players[j].name = n}

\* C11: in every reachable state, a join of a registered room under a name that
\* another session's table entry carries fails with NameTaken and changes
\* nothing when one of those sessions is still connected; when all of them are
\* disconnected their entries are evicted and the join succeeds.
NameConflictResolved ==
  \A s \in {i \in Ids : alive[i] /\ joins[i].pc = "idle"}, r \in DOMAIN rooms, n \in Names :
    LET holders == NameHolders(s, n)
        res == performNormalJoin(Reg, r, rooms[r].password, s, n)
    IN holders # {} =>
         /\ (\E j \in holders : alive[j]) => (res.err = "NameTaken" /\ res.reg = Reg)
         /\ (\A j \in holders : ~alive[j]) =>
              (res.err = "" /\ holders \cap DOMAIN res.reg.players = {})

\* C12: in every reachable state no two entries of the player table, under
\* different session ids, carry the same player name.
NamesUnique ==
  \A i \in DOMAIN players, j \in DOMAIN players :
    players[i].name = players[j].name => i = j

\* C15: in every reachable state every room's selectedPlayers has at most 2
\* entries and each entry is the id of a current member of the room.
SelectionWithinMembers ==
  \A r \in DOMAIN rooms :
    /\ Len(rooms[r].selectedPlayers) <= 2
    /\ \A k \in 1..Len(rooms[r].selectedPlayers) :
         rooms[r].selectedPlayers[k] \in MemberIds(rooms[r])

\* C16: in every reachable state an update-selected-players request of a member
\* who is not the room's host leaves the room's selectedPlayers as they were.
SelectionHostOnly ==
  \A s \in {i \in Ids : alive[i] /\ NonHostMember(i)}, sel \in Selections :
    LET r == players[s].room
    IN handleUpdateSelectedPlayers(Reg, s, sel).rooms[r].selectedPlayers
         = rooms[r].selectedPlayers

\* ------------------------------------------------------------ replication runs
\* what the room holds when the messages start to arrive: no match, or the match
\* Alice started at time t
HeldStates == {<<>>} \cup {<<StartedState(<<"s1", "s2">>, t)>> : t \in 1..MaxTime}

MsgSets == {M \in SUBSET StateMsgs : Cardinality(M) \in 1..MaxMsgs}

InitRepl ==
  /\ \E held \in HeldStates, M \in MsgSets :
       /\ rooms = [Lobby.rooms EXCEPT !["R1"].gameState = held,
                                       !["R1"].isGameActive = (held # <<>>)]
       /\ pending = M
       /\ sent = [msgs |-> M, start |-> held]
  /\ players = Lobby.players
  /\ joins = [s \in Ids |-> Idle]
  /\ store = [r \in {"R1"} |-> roomData(Lobby.rooms["R1"])]
  /\ sio = [s \in Ids |-> {"R1"}]
  /\ alive = [s \in Ids |-> TRUE]
  /\ subscribed = {"R1"}
  /\ now = MaxTime
  /\ out = Quiet

NextRepl == \E m \in StateMsgs : DeliverState("R1", m)

SpecRepl == InitRepl /\ [][NextRepl]_vars

\* room.gameState?.timestamp || 0
Held(gameState) == IF gameState = <<>> THEN 0 ELSE gameState[1].timestamp

\* the game state a node holds once it has applied msg
StateOf(msg) == <<[msg.state EXCEPT !.timestamp = msg.timestamp]>>

Greatest(M) == {m \in M : \A n \in M : n.timestamp <= m.timestamp}

\* the messages of the run that another node published after the state held at
\* the start
Newer == {m \in sent.msgs : m.serverId # ThisServerId /\ m.timestamp > Held(sent.start)}

\* the messages of M in increasing timestamp order
ByTimestamp(M) ==
  CHOOSE q \in [1..Cardinality(M) -> M] :
    /\ \A m \in M : \E k \in DOMAIN q : q[k] = m
    /\ \A k \in DOMAIN q : \A l \in DOMAIN q : k < l => q[k].timestamp <= q[l].timestamp

RECURSIVE ApplyInOrder(_, _, _)
ApplyInOrder(room, q, k) ==
  IF k > Len(q) THEN room ELSE ApplyInOrder(updateRoomState(room, q[k]), q, k + 1)

\* the room as the run found it
StartRoom ==
  [Lobby.rooms["R1"] EXCEPT !.gameState = sent.start, !.isGameActive = (sent.start # <<>>)]

\* C3: delivering a state message whose timestamp is not greater than the one
\* of the game state the room holds changes neither gameState nor isGameActive
\* nor the held timestamp and broadcasts nothing; a message is applied only
\* when its timestamp is strictly greater than the held one.
StaleMessageIgnored ==
  [][\A m \in StateMsgs :
       DeliverState("R1", m)
       => (/\ (rooms["R1"].gameState # <<>> /\ m.timestamp <= Held(rooms["R1"].gameState))
                => (rooms' = rooms /\ out'.events = {})
           /\ (rooms' # rooms \/ out'.events # {})
                => m.timestamp > Held(rooms["R1"].gameState))]_vars

\* the one message delivered so far came from the peer, was not newer than the
\* match the room held, and left the room as it was, with nothing broadcast
StaleMessageWitness ==
  /\ sent.start # <<>>
  /\ Cardinality(sent.msgs \ pending) = 1
  /\ \E m \in sent.msgs \ pending :
       m.serverId = PeerServerId /\ m.timestamp <= Held(sent.start)
  /\ rooms["R1"].gameState = sent.start
  /\ out.events = {}

\* C4 as stated: whatever the arrival order, once every message of the set is
\* delivered the room holds what delivery in increasing timestamp order
\* leaves, namely the state of the message with the greatest timestamp.
LastWriterWins ==
  pending = {}
  => /\ rooms["R1"] = ApplyInOrder(StartRoom, ByTimestamp(sent.msgs), 1)
     /\ \E m \in Greatest(sent.msgs) : rooms["R1"].gameState = StateOf(m)

\* C4: whatever the arrival order, once every message of the set is delivered:
\* if no message of another node is newer than the state held at the start,
\* the room is as it was; if exactly one message of another node carries the
\* greatest such timestamp, the room holds that message's state, which is what
\* delivery in increasing timestamp order leaves.
NewestPeerMessageWins ==
  pending = {}
  => /\ Newer = {} => rooms["R1"] = StartRoom
     /\ \A m \in Newer :
          Greatest(Newer) = {m}
          => /\ rooms["R1"].gameState = StateOf(m)
             /\ rooms["R1"].isGameActive
             /\ rooms["R1"] = ApplyInOrder(StartRoom, ByTimestamp(sent.msgs), 1)

\* two messages of the peer, both newer than the held state, the older of
\* them with the other payload, have all been delivered
NewestPeerMessageWitness ==
  /\ pending = {}
  /\ \E m \in Newer, n \in Newer :
       /\ n.timestamp < m.timestamp
       /\ n.state # m.state
       /\ rooms["R1"].gameState = StateOf(m)

\* ------------------------------------------------------------ metadata round trip
\* the rooms whose projection is taken: in the lobby or in a match, with or
\* without a selection
SourceRooms ==
  {[Room("R1", pw, hostId, hostName) EXCEPT
      !.isGameActive = active,
      !.gameState = IF active THEN <<StartedState(<<"s1", "s2">>, 1)>> ELSE <<>>,
      !.selectedPlayers = sel] :
     pw \in Passwords, hostId \in {"s1", PeerHostId}, hostName \in Names,
     active \in BOOLEAN, sel \in Selections}

\* a node that does not hold the room, with the room's projection in Redis
InitMeta ==
  /\ \E room \in SourceRooms :
       /\ sent = <<room>>
       /\ store = [r \in {room.name} |-> roomData(room)]
  /\ rooms = EmptyMap
  /\ players = EmptyMap
  /\ joins = [s \in Ids |-> Idle]
  /\ sio = [s \in Ids |-> {}]
  /\ alive = [s \in Ids |-> TRUE]
  /\ subscribed = RoomNames
  /\ now = 1
  /\ out = Quiet
  /\ pending = {}

NextMeta ==
  \/ \E r \in DOMAIN store : CreateRoomFromMetadata(r, store[r])
  \/ \E r \in DOMAIN store :
       UpdateRoomMetadata(r, [roomData |-> store[r], serverId |-> PeerServerId])
  \/ \E s \in Ids, r \in RoomNames, pw \in JoinPasswords :
       \E n \in JoinNames(s) : HandleJoinRoom(s, r, pw, n)
  \/ \E s \in Ids : JoinExistsReply(s)
  \/ \E s \in Ids : JoinMetaReply(s)
  \/ \E s \in Ids : JoinPublished(s)

SpecMeta == InitMeta /\ [][NextMeta]_vars

\* the fields of room r that a metadata projection must bring back
SameAsSource(r) ==
  /\ rooms[r].name = sent[1].name
  /\ rooms[r].hostName = sent[1].hostName
  /\ rooms[r].isGameActive = sent[1].isGameActive
  /\ rooms[r].selectedPlayers = sent[1].selectedPlayers

ProjectionRoundTrip == \A r \in DOMAIN rooms : SameAsSource(r)

\* C13: on a node that got room R from replicated metadata only (adopted, from
\* a metadata message, or rehydrated during the join), once a join under R's
\* hostName has completed that member's isHost flag is true in the registry.
HostRestoredOnJoin ==
  \A s \in DOMAIN players :
    (/\ joins[s].pc = "idle"
     /\ IsMember(s, players[s].room)
     /\ players[s].name = rooms[players[s].room].hostName)
    => players[s].isHost

\* ------------------------------------------------------------ ball physics
\* Room.updateGamePhysics on the ball's coordinates.  Positions are in
\* thousandths of a field unit, velocities in field units per second and
\* deltaTime in milliseconds, so that x + vx * deltaTime is exact.
Px(n) == n * 1000

\* Math.cos(angle) * speed and Math.sin(angle) * speed, to the nearest integer,
\* for angle = PI/6 + Math.random() * PI/6 (30, 45 and 60 degrees)
Band30to60 == {<<433, 250>>, <<354, 354>>, <<250, 433>>}

\* the same for angle = 2*PI/3 + Math.random() * PI/6 (120, 135 and 150 degrees)
Band120to150 == {<<-250, 433>>, <<-354, 354>>, <<-433, 250>>}

\* (Math.random() - 0.5) * 2, to the nearest integer
Jitters == {-1, 0}

\* the random draws of one step
Draws == [low : Band30to60, high : Band120to150, jitter : Jitters]

\* the clamped deltaTime of a step, in milliseconds
DeltaTimes == {10, 30}

PhysicsStep(room, dt, rnd, t) ==
  IF room.gameState = <<>> \/ ~room.isGameActive THEN room
  ELSE
    LET gs == room.gameState[1]
        paddles == gs.paddles
        x1 == gs.ball.x + gs.ball.vx * dt
        y1 == gs.ball.y + gs.ball.vy * dt
        vy1 == IF y1 <= Px(10) \/ y1 >= Px(590) THEN -gs.ball.vy ELSE gs.ball.vy
        hit1 == x1 <= Px(30) /\ y1 >= Px(paddles.player1) /\ y1 <= Px(paddles.player1 + 100)
        hit2 == ~hit1 /\ x1 >= Px(770)
                  /\ y1 >= Px(paddles.player2) /\ y1 <= Px(paddles.player2 + 100)
        moved == [x |-> x1, y |-> y1,
                  vx |-> IF hit1 \/ hit2 THEN -gs.ball.vx ELSE gs.ball.vx,
                  vy |-> IF hit2 THEN vy1 + rnd.jitter ELSE vy1,
                  lastTouched |-> IF hit1 THEN "player1"
                                  ELSE IF hit2 THEN "player2" ELSE gs.ball.lastTouched]
        ball == IF x1 < 0
                  THEN [moved EXCEPT !.x = Px(400), !.y = Px(300),
                                     !.vx = rnd.low[1], !.vy = rnd.low[2]]
                ELSE IF x1 > Px(800)
                  THEN [moved EXCEPT !.x = Px(400), !.y = Px(300),
                                     !.vx = rnd.high[1], !.vy = rnd.high[2]]
                ELSE moved
        scores == [player1 |-> gs.scores.player1 + (IF x1 > Px(800) THEN 1 ELSE 0),
                   player2 |-> gs.scores.player2 + (IF x1 < 0 THEN 1 ELSE 0)]
        winner == IF scores.player1 >= WinScore THEN "player1"
                  ELSE IF scores.player2 >= WinScore THEN "player2"
                  ELSE gs.winner
    IN [room EXCEPT !.gameState =
          <<[gs EXCEPT !.ball = ball, !.scores = scores, !.winner = winner,
                       !.timestamp = t]>>]

\* Room.updateGame(ball, paddles, scores) at Date.now() = t
RoomUpdateGame(room, ball, paddles, scores, t) ==
  IF room.gameState = <<>> THEN room
  ELSE [room EXCEPT !.gameState =
          <<[room.gameState[1] EXCEPT
               !.ball = ball, !.paddles = paddles, !.scores = scores, !.timestamp = t,
               !.winner = IF scores.player1 >= LegacyWinScore THEN "player1"
                          ELSE IF scores.player2 >= LegacyWinScore THEN "player2"
                          ELSE @]>>]

\* balls in flight: just served, next to either goal line, next to a paddle
BallStates ==
  {[x |-> Px(x), y |-> Px(y), vx |-> v[1], vy |-> v[2], lastTouched |-> ""] :
     x \in {2, 25, 400, 775, 798}, y \in {12, 300}, v \in Band30to60 \cup Band120to150}

ScorePairs == {[player1 |-> a, player2 |-> b] : a, b \in {0, WinScore - 1}}

\* a match of the lobby's two players in full flight
InitPhysics ==
  /\ \E b \in BallStates, sc \in ScorePairs, pd \in PaddleInputs :
       rooms = [Lobby.rooms EXCEPT
                  !["R1"].isGameActive = TRUE,
                  !["R1"].gameState =
                     <<[StartedState(<<"s1", "s2">>, 1) EXCEPT
                          !.ball = b, !.scores = sc, !.paddles = pd]>>]
  /\ players = Lobby.players
  /\ joins = [s \in Ids |-> Idle]
  /\ store = [r \in {"R1"} |-> roomData(Lobby.rooms["R1"])]
  /\ sio = [s \in Ids |-> {"R1"}]
  /\ alive = [s \in Ids |-> TRUE]
  /\ subscribed = {"R1"}
  /\ now = 1
  /\ out = Quiet
  /\ pending = {}
  /\ sent = 0

\* one callback of the startGameLoop interval; sent counts the callbacks
PhysicsTick(dt, rnd) ==
  /\ sent < MaxTicks
  /\ sent' = sent + 1
  /\ rooms' = [r \in DOMAIN rooms |->
                 IF Ticking(rooms[r]) THEN PhysicsStep(rooms[r], dt, rnd, now) ELSE rooms[r]]
  /\ out' = Quiet
  /\ UNCHANGED <<players, joins, store, sio, alive, subscribed, now, pending>>

NextPhysics == \E dt \in DeltaTimes, rnd \in Draws : PhysicsTick(dt, rnd)

SpecPhysics == InitPhysics /\ [][NextPhysics]_vars

\* the ball of room r is over player1's goal line after moving for dt
CrossesLeft(r, dt) ==
  /\ Ticking(rooms[r]) /\ rooms[r].gameState # <<>>
  /\ rooms[r].gameState[1].ball.x + rooms[r].gameState[1].ball.vx * dt < 0

\* the ball flies at the speed constant, up to the rounding of its components
AtSpeed(ball) ==
  LET d == ball.vx * ball.vx + ball.vy * ball.vy - Speed * Speed
  IN d <= 1000 /\ d >= -1000

\* C14: in a step in which the ball's x becomes less than 0, player2's score
\* grows by exactly 1, player1's score stays, and the ball is back at the
\* center (400, 300) at the speed constant, flying towards player1's side
\* (vx < 0).
GoalLeftServesLeft ==
  \A r \in DOMAIN rooms, dt \in DeltaTimes, rnd \in Draws :
    CrossesLeft(r, dt) =>
      LET old == rooms[r].gameState[1]
          new == PhysicsStep(rooms[r], dt, rnd, now).gameState[1]
      IN /\ new.scores.player2 = old.scores.player2 + 1
         /\ new.scores.player1 = old.scores.player1
         /\ new.ball.x = Px(400) /\ new.ball.y = Px(300)
         /\ AtSpeed(new.ball)
         /\ new.ball.vx < 0

\* the scores client messages carry
ClientScores == {[player1 |-> a, player2 |-> 0] : a \in {0, WinScore, WinScore + 2, LegacyWinScore}}

\* gs has a winner exactly when one of its scores has reached T
DecidedAt(gs, T) ==
  (gs.winner # "") <=> (gs.scores.player1 >= T \/ gs.scores.player2 >= T)

\* C20: one winning-score threshold T serves every code path of a match: after
\* a step of the tick loop and after Room.updateGame alike, the match has a
\* winner exactly when a score has reached T, and the tick loop leaves no
\* score above T.
SingleThreshold ==
  \A r \in {q \in DOMAIN rooms : Ticking(rooms[q]) /\ rooms[q].gameState # <<>>} :
    \E T \in 1..LegacyWinScore :
      /\ \A dt \in DeltaTimes, rnd \in Draws :
           LET gs == PhysicsStep(rooms[r], dt, rnd, now).gameState[1]
           IN DecidedAt(gs, T) /\ gs.scores.player1 <= T /\ gs.scores.player2 <= T
      /\ \A sc \in ClientScores :
           DecidedAt(RoomUpdateGame(rooms[r], rooms[r].gameState[1].ball,
                                    rooms[r].gameState[1].paddles, sc, now).gameState[1], T)

\* ------------------------------------------------------------ match properties
\* room r of registry reg with the paddles of its game state put back to pd
WithPaddles(reg, r, pd) ==
  IF reg.rooms[r].gameState = <<>> THEN reg
  ELSE [reg EXCEPT !.rooms[r].gameState[1].paddles = pd]

\* the ids of the two participants of room's match
Participants(room) ==
  {room.gameState[1].players[k] : k \in 1..Len(room.gameState[1].players)}

\* C17: in every reachable state, a game-update of a member is answered with an
\* error and changes nothing when the member's room has no active match; when
\* it is accepted, nothing but gameState.paddles differs afterwards, whatever
\* ball and scores the message carries.
PaddleUpdateFrame ==
  \A s \in {i \in Ids : alive[i] /\ i \in DOMAIN players}, data \in GameUpdates :
    LET r == players[s].room
        res == handleGameUpdate(Reg, s, data)
    IN /\ (r \notin DOMAIN rooms \/ ~rooms[r].isGameActive)
            => (res.err # "" /\ res.reg = Reg)
       /\ res.err # "" => res.reg = Reg
       /\ (res.err = "" /\ r \in DOMAIN rooms /\ rooms[r].gameState # <<>>)
            => WithPaddles(res.reg, r, rooms[r].gameState[1].paddles) = Reg

\* a client's update has moved the paddles of a running match whose ball and
\* scores differ from the ones the message carried
PaddleUpdateWitness ==
  /\ out = Quiet
  /\ rooms["R1"].isGameActive /\ rooms["R1"].gameState # <<>>
  /\ rooms["R1"].gameState[1].paddles = [player1 |-> 100, player2 |-> 400]
  /\ rooms["R1"].gameState[1].ball = "field"
  /\ rooms["R1"].gameState[1].scores = [player1 |-> 1, player2 |-> 1]

\* C18: in every reachable state, a game-update sent by a member who is not
\* one of the two participants of the room's active match leaves
\* gameState.paddles as they were.
OnlyParticipantsMovePaddles ==
  \A s \in {i \in Ids : alive[i] /\ i \in DOMAIN players}, data \in GameUpdates :
    LET r == players[s].room
    IN (/\ r \in DOMAIN rooms
        /\ rooms[r].isGameActive /\ rooms[r].gameState # <<>>
        /\ s \notin Participants(rooms[r]))
       => handleGameUpdate(Reg, s, data).reg.rooms[r].gameState[1].paddles
            = rooms[r].gameState[1].paddles

\* room r has a match with a winner
Won(r) == r \in DOMAIN rooms /\ rooms[r].gameState # <<>> /\ rooms[r].gameState[1].winner # ""

\* the step leaves the ball, the scores and the winner of room r's match alone
Frozen(r) ==
  /\ r \in DOMAIN rooms' /\ rooms'[r].gameState # <<>>
  /\ rooms'[r].gameState[1].ball = rooms[r].gameState[1].ball
  /\ rooms'[r].gameState[1].scores = rooms[r].gameState[1].scores
  /\ rooms'[r].gameState[1].winner = rooms[r].gameState[1].winner

EndsOrRestarts ==
  \/ \E s \in Ids : HandleBackToLobby(s)
  \/ \E s \in Ids, ids \in IdLists : HandleStartGame(s, ids)

Carol == "Carol"     \* the name of the peer's client px

\* updateRoomState as the node whose SERVER_ID is thisServerId runs it
updateRoomStateAs(thisServerId, room, msg) ==
  LET remoteTimestamp == msg.timestamp
      localTimestamp == IF room.gameState = <<>> THEN 0 ELSE room.gameState[1].timestamp
  IN IF (remoteTimestamp > localTimestamp \/ room.gameState = <<>>)
        /\ msg.serverId # thisServerId /\ remoteTimestamp > localTimestamp
       THEN [room EXCEPT !.gameState = <<[msg.state EXCEPT !.timestamp = remoteTimestamp]>>,
                         !.isGameActive = TRUE]
       ELSE room

\* the message publishGameState sends for a room of the node serverId at Date.now() = t
StateMessage(room, serverId, t) ==
  [state |-> [room.gameState[1] EXCEPT !.timestamp = t], timestamp |-> t, serverId |-> serverId]

\* one copy of msg for every node listening to room r's state channel
Copies(r, msg) ==
  {[to |-> n, msg |-> msg] :
     n \in (IF r \in subscribed THEN {ThisServerId} ELSE {})
             \cup (IF r \in sent.subscribed THEN {PeerServerId} ELSE {})}

\* Alice hosts R1 on this node with Bob as her guest; the peer has rehydrated R1
\* from the stored metadata when its client px joined under the name Carol
InitPair ==
  /\ rooms = Lobby.rooms
  /\ players = Lobby.players
  /\ joins = [s \in Ids |-> Idle]
  /\ store = [r \in {"R1"} |-> roomData(Lobby.rooms["R1"])]
  /\ sio = [s \in Ids |-> {"R1"}]
  /\ alive = [s \in Ids |-> TRUE]
  /\ subscribed = {}
  /\ now = 1
  /\ out = Quiet
  /\ pending = {}
  /\ sent = [rooms |-> createRoomWithHostRestoration(
                          [rooms |-> EmptyMap, players |-> EmptyMap], "R1", "",
                          PeerHostId, Carol, <<store["R1"]>>).reg.rooms,
             subscribed |-> {}]

\* this node's client starts a match (and the node subscribes the room's channels)
PairStartGame(s) == HandleStartGame(s, <<"s1", "s2">>)

\* the peer's client px sends start-game: startGame refuses the guest, and the
\* peer's server.ts subscribes the room's channels all the same
PeerStartGame(r) ==
  /\ r \in DOMAIN sent.rooms
  /\ sent' = [sent EXCEPT !.subscribed = @ \cup {r}]
  /\ UNCHANGED <<rooms, players, joins, store, sio, alive, subscribed, now, out, pending>>

\* one callback of this node's loop; the ball stays in the field
PairTick ==
  /\ \E r \in DOMAIN rooms : Ticking(rooms[r])
  /\ rooms' = [r \in DOMAIN rooms |->
                 IF Ticking(rooms[r]) THEN updateGamePhysics(rooms[r], "move", now)
                 ELSE rooms[r]]
  /\ out' = Quiet
  /\ UNCHANGED <<players, joins, store, sio, alive, subscribed, now, pending, sent>>

\* one callback of the peer's loop
PeerTick ==
  /\ \E r \in DOMAIN sent.rooms : Ticking(sent.rooms[r])
  /\ sent' = [sent EXCEPT !.rooms =
                [r \in DOMAIN sent.rooms |->
                   IF Ticking(sent.rooms[r]) THEN updateGamePhysics(sent.rooms[r], "move", now)
                   ELSE sent.rooms[r]]]
  /\ UNCHANGED <<rooms, players, joins, store, sio, alive, subscribed, now, out, pending>>

\* this node's publish interval, one room of its loop
PairPublish(r) ==
  /\ r \in DOMAIN rooms
  /\ rooms[r].isGameActive /\ rooms[r].gameState # <<>>
  /\ Cardinality(pending) < MaxMsgs
  /\ rooms' = [rooms EXCEPT ![r].gameState[1].timestamp = now]
  /\ pending' = pending \cup Copies(r, StateMessage(rooms[r], ThisServerId, now))
  /\ out' = Events({"game-update"})
  /\ UNCHANGED <<players, joins, store, sio, alive, subscribed, now, sent>>

\* the peer's publish interval, one room of its loop
PeerPublish(r) ==
  /\ r \in DOMAIN sent.rooms
  /\ sent.rooms[r].isGameActive /\ sent.rooms[r].gameState # <<>>
  /\ Cardinality(pending) < MaxMsgs
  /\ sent' = [sent EXCEPT !.rooms[r].gameState[1].timestamp = now]
  /\ pending' = pending \cup Copies(r, StateMessage(sent.rooms[r], PeerServerId, now))
  /\ UNCHANGED <<rooms, players, joins, store, sio, alive, subscribed, now, out>>

\* Redis hands this node a message of room r's state channel
PairDeliver(r, c) ==
  /\ c \in pending /\ c.to = ThisServerId
  /\ pending' = pending \ {c}
  /\ r \in DOMAIN rooms
  /\ rooms' = [rooms EXCEPT ![r] = updateRoomStateAs(ThisServerId, @, c.msg)]
  /\ out' = IF rooms' # rooms THEN Events({"game-update"}) ELSE Quiet
  /\ UNCHANGED <<players, joins, store, sio, alive, subscribed, now, sent>>

\* Redis hands the peer a message of room r's state channel
PeerDeliver(r, c) ==
  /\ c \in pending /\ c.to = PeerServerId
  /\ pending' = pending \ {c}
  /\ r \in DOMAIN sent.rooms
  /\ sent' = [sent EXCEPT !.rooms[r] = updateRoomStateAs(PeerServerId, @, c.msg)]
  /\ UNCHANGED <<rooms, players, joins, store, sio, alive, subscribed, now, out>>

NextPair ==
  \/ \E s \in Ids : PairStartGame(s)
  \/ \E r \in RoomNames : PeerStartGame(r)
  \/ PairTick
  \/ PeerTick
  \/ \E r \in RoomNames : PairPublish(r)
  \/ \E r \in RoomNames : PeerPublish(r)
  \/ \E r \in RoomNames : \E c \in pending : PairDeliver(r, c)
  \/ \E r \in RoomNames : \E c \in pending : PeerDeliver(r, c)
  \/ Advance

SpecPair == InitPair /\ [][NextPair]_vars

\* the tick loop and the publish interval of a node act on this room
RunsLoop(room) ==
  room.isGameActive /\ room.gameState # <<>> /\ room.gameState[1].winner = ""

\* C21: in every reachable state in which both nodes hold room R, at most one
\* of them has R in the ticking condition (isGameActive with a gameState and no
\* winner).
SingleTicker ==
  \A r \in (DOMAIN rooms) \cap (DOMAIN sent.rooms) :
    ~(RunsLoop(rooms[r]) /\ RunsLoop(sent.rooms[r]))

\* ------------------------------------------------------------ one node alone
\* The registry of this node with no message of the peer arriving: every
\* change of a room is one its own clients asked for.
NextLocal ==
  \/ \E s \in Ids, r \in RoomNames, pw \in JoinPasswords :
       \E n \in JoinNames(s) : HandleJoinRoom(s, r, pw, n)
  \/ \E s \in Ids : JoinExistsReply(s)
  \/ \E s \in Ids : JoinMetaReply(s)
  \/ \E s \in Ids : JoinPublished(s)
  \/ \E s \in Ids, ids \in IdLists : HandleStartGame(s, ids)
  \/ \E s \in Ids : HandleBackToLobby(s)
  \/ \E s \in Ids, sel \in Selections : HandleUpdateSelectedPlayers(s, sel)
  \/ \E s \in Ids : HandleLeaveRoom(s)
  \/ \E s \in Ids : HandleDisconnect(s)

SpecLocal == Init /\ [][NextLocal]_vars

\* C22: in every reachable state of a node alone in which no publish is still
\* under way, the stored projection of every registered room has the room's
\* current hostName, isGameActive and selectedPlayers.
ProjectionCurrent ==
  (\A s \in Ids : joins[s].pc = "idle")
  => \A r \in DOMAIN rooms :
       /\ r \in DOMAIN store
       /\ store[r].hostName = rooms[r].hostName
       /\ store[r].isGameActive = rooms[r].isGameActive
       /\ store[r].selectedPlayers = rooms[r].selectedPlayers

\* ------------------------------------------------------------ startup
\* startServer of server.ts on a node whose Redis already holds the projection
\* of a room.  sent.pc is the statement startServer has reached, sent.healthy
\* whether Redis answers.
InitStartup ==
  /\ \E room \in SourceRooms, h \in BOOLEAN :
       /\ store = [r \in {room.name} |-> roomData(room)]
       /\ sent = [pc |-> "initializeRedis", healthy |-> h]
  /\ rooms = EmptyMap
  /\ players = EmptyMap
  /\ joins = [s \in Ids |-> Idle]
  /\ sio = [s \in Ids |-> {}]
  /\ alive = [s \in Ids |-> TRUE]
  /\ subscribed = {}
  /\ now = 1
  /\ out = Quiet
  /\ pending = {}

\* await initializeRedis() and subscribeToPrimaryServerElection(): a failed
\* connection ends the process
InitializeRedis ==
  /\ sent.pc = "initializeRedis"
  /\ sent' = [sent EXCEPT !.pc = IF sent.healthy THEN "election" ELSE "exited"]
  /\ out' = Quiet
  /\ UNCHANGED <<rooms, players, joins, store, sio, alive, subscribed, now, pending>>

\* handlePrimaryServerElection: the health check, then the election message
handlePrimaryServerElection ==
  IF sent.healthy THEN Events({"primary-election"}) ELSE Quiet

\* await handlePrimaryServerElection()
FirstElection ==
  /\ sent.pc = "election"
  /\ sent' = [sent EXCEPT !.pc = "subscribeToAllRooms"]
  /\ out' = handlePrimaryServerElection
  /\ UNCHANGED <<rooms, players, joins, store, sio, alive, subscribed, now, pending>>

\* await subscribeToAllRooms(), then server.listen
SubscribeToAllRooms ==
  /\ sent.pc = "subscribeToAllRooms"
  /\ subscribed' = subscribed \cup DOMAIN rooms
  /\ sent' = [sent EXCEPT !.pc = "listening"]
  /\ out' = Quiet
  /\ UNCHANGED <<rooms, players, joins, store, sio, alive, now, pending>>

\* the setTimeout callback of the listen callback: the startup sequence is over
DelayedElection ==
  /\ sent.pc = "listening"
  /\ sent' = [sent EXCEPT !.pc = "done"]
  /\ out' = handlePrimaryServerElection
  /\ UNCHANGED <<rooms, players, joins, store, sio, alive, subscribed, now, pending>>

\* the server accepts connections
Listening == sent.pc \in {"listening", "done"}

NextStartup ==
  \/ InitializeRedis
  \/ FirstElection
  \/ SubscribeToAllRooms
  \/ DelayedElection
  \/ \E s \in Ids, r \in RoomNames, pw \in JoinPasswords :
       \E n \in JoinNames(s) : Listening /\ HandleJoinRoom(s, r, pw, n)
  \/ \E s \in Ids : JoinExistsReply(s)
  \/ \E s \in Ids : JoinMetaReply(s)
  \/ \E s \in Ids : JoinPublished(s)

SpecStartup == InitStartup /\ [][NextStartup]_vars

\* the startup sequence has just completed, before any client has joined
StartupJustDone ==
  /\ sent.pc = "done"
  /\ out = handlePrimaryServerElection
  /\ players = EmptyMap
  /\ \A s \in Ids : joins[s].pc = "idle"

\* C23: once the startup sequence has completed with the metadata store
\* healthy, every room key of the projection has a local Room with the stored
\* hostName and hostId, and the node listens to that room's channels.
AdoptedAtStartup ==
  (StartupJustDone /\ sent.healthy)
  => \A r \in DOMAIN store :
       /\ r \in DOMAIN rooms
       /\ rooms[r].hostName = store[r].hostName
       /\ rooms[r].hostId = store[r].hostId
       /\ r \in subscribed

\* ------------------------------------------------------------ Redis outages
\* The join-room handler on a node whose Redis comes and goes.  sent.up tells
\* whether Redis answers; sent.failed holds the sockets whose suspended join
\* has met a Redis call that failed.  A failed checkRoomMetadataExists answers
\* false, a failed getRoomMetadataFromRedis answers null and a failed
\* publishRoomMetadata stores nothing (redis.ts catches each error).
InitOutage ==
  /\ rooms = EmptyMap
  /\ players = EmptyMap
  /\ joins = [s \in Ids |-> Idle]
  /\ store = EmptyMap
  /\ sio = [s \in Ids |-> {}]
  /\ alive = [s \in Ids |-> TRUE]
  /\ subscribed = {}
  /\ now = 1
  /\ out = Quiet
  /\ pending = {}
  /\ sent = [up |-> TRUE, failed |-> {}]

RedisFails ==
  /\ sent.up
  /\ sent' = [sent EXCEPT !.up = FALSE]
  /\ UNCHANGED <<rooms, players, joins, store, sio, alive, subscribed, now, out, pending>>

RedisRecovers ==
  /\ ~sent.up
  /\ sent' = [sent EXCEPT !.up = TRUE]
  /\ UNCHANGED <<rooms, players, joins, store, sio, alive, subscribed, now, out, pending>>

\* the failed set once the call socket s waits for has been made
Met(s) == IF sent.up THEN sent.failed ELSE sent.failed \cup {s}

\* publishRoomMetadata of redis.ts for the room the registry reg holds under roomName
Published(reg, roomName) ==
  IF sent.up THEN MapPut(store, roomName, roomData(reg.rooms[roomName])) ELSE store

\* handleJoinRoom -> joinRoomWithFailoverCheck, up to its first await
OutageJoinRoom(s, roomName, password, playerName) ==
  /\ alive[s] /\ joins[s].pc = "idle"
  /\ IF roomName \in DOMAIN rooms
       THEN LET res == performNormalJoin(Reg, roomName, password, s, playerName)
            IN /\ SetReg(res.reg)
               /\ sio' = IF res.err = "" THEN [sio EXCEPT ![s] = @ \cup {roomName}] ELSE sio
               /\ out' = Error(res.err)
               /\ sent' = [sent EXCEPT !.failed = @ \ {s}]
               /\ UNCHANGED joins
       ELSE /\ Cardinality({t \in Ids : joins[t].pc # "idle"}) < MaxInflight
            /\ joins' = [joins EXCEPT ![s] =
                           [pc |-> "exists", roomName |-> roomName, password |-> password,
                            playerName |-> playerName,
                            exists |-> sent.up /\ roomName \in DOMAIN store, meta |-> <<>>]]
            /\ sent' = [sent EXCEPT !.failed = Met(s) \ (IF sent.up THEN {s} ELSE {})]
            /\ out' = Quiet
            /\ UNCHANGED <<rooms, players, sio>>
  /\ UNCHANGED <<store, alive, subscribed, now, pending>>

\* checkRoomExistsInRedis answered
OutageExistsReply(s) ==
  LET j == joins[s] IN
  /\ j.pc = "exists"
  /\ IF j.exists
       THEN IF j.roomName \in DOMAIN rooms
              THEN /\ joins' = [joins EXCEPT ![s] = Idle]
                   /\ out' = Error("NetworkIssue")
                   /\ UNCHANGED <<rooms, players, store, sent>>
              ELSE /\ joins' = [joins EXCEPT ![s] =
                                  [j EXCEPT !.pc = "getmeta",
                                            !.meta = IF sent.up /\ j.roomName \in DOMAIN store
                                                       THEN <<store[j.roomName]>> ELSE <<>>]]
                   /\ sent' = [sent EXCEPT !.failed = Met(s)]
                   /\ out' = Quiet
                   /\ UNCHANGED <<rooms, players, store>>
       ELSE LET res == createRoom(Reg, j.roomName, j.password, s, j.playerName)
            IN IF res.err # ""
                 THEN /\ joins' = [joins EXCEPT ![s] = Idle]
                      /\ out' = Error("NetworkIssue")
                      /\ UNCHANGED <<rooms, players, store, sent>>
                 ELSE /\ SetReg(res.reg)
                      /\ store' = Published(res.reg, j.roomName)
                      /\ sent' = [sent EXCEPT !.failed = Met(s)]
                      /\ joins' = [joins EXCEPT ![s] =
                                     [Idle EXCEPT !.pc = "publish", !.roomName = j.roomName,
                                                  !.playerName = j.playerName]]
                      /\ out' = Quiet
  /\ UNCHANGED <<sio, alive, subscribed, now, pending>>

\* getRoomMetadataFromRedis answered
OutageMetaReply(s) ==
  LET j == joins[s]
      res == createRoomWithHostRestoration(Reg, j.roomName, j.password, s, j.playerName, j.meta)
  IN
  /\ j.pc = "getmeta"
  /\ IF res.err # ""
       THEN /\ joins' = [joins EXCEPT ![s] = Idle]
            /\ out' = Error("NetworkIssue")
            /\ UNCHANGED <<rooms, players, store, sent>>
       ELSE /\ SetReg(res.reg)
            /\ store' = Published(res.reg, j.roomName)
            /\ sent' = [sent EXCEPT !.failed = Met(s)]
            /\ joins' = [joins EXCEPT ![s] =
                           [Idle EXCEPT !.pc = "publish", !.roomName = j.roomName,
                                        !.playerName = j.playerName]]
            /\ out' = Quiet
  /\ UNCHANGED <<sio, alive, subscribed, now, pending>>

NextOutage ==
  \/ RedisFails
  \/ RedisRecovers
  \/ \E s \in Ids, r \in RoomNames, pw \in JoinPasswords :
       \E n \in JoinNames(s) : OutageJoinRoom(s, r, pw, n)
  \/ \E s \in Ids : OutageExistsReply(s)
  \/ \E s \in Ids : OutageMetaReply(s)
  \/ \E s \in Ids : JoinPublished(s)
  \/ \E s \in Ids : HandleLeaveRoom(s)
  \/ \E s \in Ids : HandleDisconnect(s)

SpecOutage == InitOutage /\ [][NextOutage]_vars

\* what joinRoomWithFailoverCheck does for socket s once the Redis call its join
\* j waits for has answered
resumeJoin(reg, s, j) ==
  IF j.pc = "exists" /\ ~j.exists
    THEN createRoom(reg, j.roomName, j.password, s, j.playerName)
    ELSE createRoomWithHostRestoration(reg, j.roomName, j.password, s, j.playerName, j.meta)

\* C24: in every reachable state in which a join waits with a metadata read
\* that returned nothing, for a room the node does not hold, the join does not
\* fail: it creates the room with the joiner as its host.
MissingMetadataCreatesRoom ==
  \A s \in Ids :
    (joins[s].pc = "getmeta" /\ joins[s].meta = <<>> /\ joins[s].roomName \notin DOMAIN rooms)
    => LET j == joins[s]
           res == createRoomWithHostRestoration(Reg, j.roomName, j.password, s,
                                                j.playerName, j.meta)
       IN /\ res.err = ""
          /\ j.roomName \in DOMAIN res.reg.rooms
          /\ res.reg.rooms[j.roomName].hostName = j.playerName
          /\ s \in DOMAIN res.reg.rooms[j.roomName].players
          /\ res.reg.players[s].isHost

\* C25: in every reachable state in which a join of a room absent locally has
\* met a failed Redis call and has its answer, and the same join would succeed
\* against a reachable Redis without metadata of the room, the join succeeds
\* and leaves the registry that join would leave.
DegradedJoinSucceeds ==
  \A s \in sent.failed :
    LET j == joins[s]
        fresh == createRoom(Reg, j.roomName, j.password, s, j.playerName)
    IN (/\ j.pc = "getmeta" \/ (j.pc = "exists" /\ ~j.exists)
        /\ fresh.err = "")
       => (resumeJoin(Reg, s, j).err = "" /\ resumeJoin(Reg, s, j).reg = fresh.reg)

\* ------------------------------------------------------------ event loop
\* The callbacks of one node statement by statement.  A callback (a frame)
\* runs on the node's single thread until it returns or reaches an await;
\* sent.running is <<>> or the frame on the thread, sent.parked the frames
\* waiting at an await.  A frame is [fn, room, pc, from, arg]: the callback,
\* the room it works on, the statements it has executed, the room as it found
\* it, and its input (the ball's outcome, or the message).
Frame(fn, r, pc, arg) == [fn |-> fn, room |-> r, pc |-> pc, from |-> rooms[r], arg |-> arg]

\* the frames of the node
Frames == {sent.running[k] : k \in DOMAIN sent.running} \cup sent.parked

\* a tick that waits after its first statement
SuspendsInTick(f) ==
  (f.fn = "publish" /\ f.pc = 1) \/ (f.fn = "tick" /\ f.pc = 1)

\* the frame has reached an await: of the three callbacks only the publish
\* interval has one, after it has stamped the state
Suspends(f) == f.fn = "publish" /\ f.pc = 1

\* the number of statements of each callback
LastPc(fn) == IF fn = "tick" THEN 4 ELSE 2

\* Room.updateGamePhysics after its first k statements: the ball moved (past a
\* goal line when o is a goal), the score and the serve, the winner, the stamp
PhysicsAfter(room, o, t, k) ==
  IF room.gameState = <<>> \/ ~room.isGameActive THEN room
  ELSE LET gs == room.gameState[1]
           s1 == [gs EXCEPT !.ball = IF o = "move" THEN "field" ELSE "out"]
           s2 == IF o = "move" THEN s1
                 ELSE [s1 EXCEPT !.ball = "center",
                                 !.scores = IF o = "goalBy1"
                                              THEN [@ EXCEPT !.player1 = @ + 1]
                                              ELSE [@ EXCEPT !.player2 = @ + 1]]
           s3 == IF s2.scores.player1 >= WinScore THEN [s2 EXCEPT !.winner = "player1"]
                 ELSE IF s2.scores.player2 >= WinScore THEN [s2 EXCEPT !.winner = "player2"]
                 ELSE s2
           s4 == [s3 EXCEPT !.timestamp = t]
       IN [room EXCEPT !.gameState =
             <<IF k = 0 THEN gs ELSE IF k = 1 THEN s1 ELSE IF k = 2 THEN s2
               ELSE IF k = 3 THEN s3 ELSE s4>>]

\* RoomController.updateRoomState after its first k statements: the game state
\* assigned, then isGameActive
ApplyAfter(room, msg, k) ==
  IF updateRoomState(room, msg) = room \/ k = 0 THEN room
  ELSE IF k = 1 THEN [room EXCEPT !.gameState = updateRoomState(room, msg).gameState]
  ELSE updateRoomState(room, msg)

\* the server.ts publish interval after its first k statements: the stamp,
\* then (after the await) the emit
PublishAfter(room, t, k) ==
  IF k = 1 /\ room.gameState # <<>> THEN [room EXCEPT !.gameState[1].timestamp = t] ELSE room

\* room r once frame f has executed its next statement
AfterNext(f, r) ==
  IF f.fn = "tick" THEN PhysicsAfter(f.from, f.arg, now, f.pc + 1)
  ELSE IF f.fn = "apply" THEN ApplyAfter(f.from, f.arg, f.pc + 1)
  ELSE PublishAfter(rooms[r], now, f.pc + 1)

\* the frame leaves the thread: it has returned, or it waits, or it goes on
Proceed(f) ==
  IF f.pc = LastPc(f.fn) THEN sent' = [sent EXCEPT !.running = <<>>]
  ELSE IF Suspends(f) THEN sent' = [running |-> <<>>, parked |-> sent.parked \cup {f}]
  ELSE sent' = [sent EXCEPT !.running = <<f>>]

\* a callback is taken from the event queue and executes its first statement
Begin(fn, r, arg) ==
  /\ sent.running = <<>>
  /\ r \in DOMAIN rooms
  /\ LET f == [Frame(fn, r, 0, arg) EXCEPT !.pc = 1]
     IN /\ rooms' = [rooms EXCEPT ![r] = AfterNext(Frame(fn, r, 0, arg), r)]
        /\ Proceed(f)
  /\ out' = Quiet
  /\ UNCHANGED <<players, joins, store, sio, alive, subscribed, now, pending>>

\* the setInterval callback of startGameLoop reaches room r
TickBegin(r, o) ==
  /\ r \in DOMAIN rooms /\ Ticking(rooms[r]) /\ rooms[r].gameState # <<>>
  /\ o \in TickOutcomes(rooms[r])
  /\ Begin("tick", r, o)

\* the subscribeToGameState callback calls updateRoomState with a message that
\* passes its tests
ApplyBegin(r, msg) ==
  /\ r \in subscribed
  /\ r \in DOMAIN rooms /\ updateRoomState(rooms[r], msg) # rooms[r]
  /\ Begin("apply", r, msg)

\* the publish interval reaches room r
PublishBegin(r) ==
  /\ r \in DOMAIN rooms /\ rooms[r].isGameActive /\ rooms[r].gameState # <<>>
  /\ \A f \in sent.parked : f.fn # "publish"
  /\ Begin("publish", r, "")

\* the running frame executes its next statement
Step ==
  /\ sent.running # <<>>
  /\ LET f == sent.running[1]
         g == [f EXCEPT !.pc = @ + 1]
     IN /\ rooms' = [rooms EXCEPT ![f.room] = AfterNext(f, f.room)]
        /\ Proceed(g)
        /\ out' = IF g.pc = LastPc(g.fn) /\ g.fn # "tick"
                    THEN Events({"game-update"}) ELSE Quiet
  /\ UNCHANGED <<players, joins, store, sio, alive, subscribed, now, pending>>

\* the awaited promise of a parked frame has resolved and the thread is free
Resume(f) ==
  /\ sent.running = <<>>
  /\ f \in sent.parked
  /\ sent' = [running |-> <<f>>, parked |-> sent.parked \ {f}]
  /\ UNCHANGED <<rooms, players, joins, store, sio, alive, subscribed, now, out, pending>>

InitLoop ==
  /\ rooms = [Lobby.rooms EXCEPT !["R1"].gameState = <<StartedState(<<"s1", "s2">>, 1)>>,
                                  !["R1"].isGameActive = TRUE]
  /\ players = Lobby.players
  /\ joins = [s \in Ids |-> Idle]
  /\ store = [r \in {"R1"} |-> roomData(Lobby.rooms["R1"])]
  /\ sio = [s \in Ids |-> {"R1"}]
  /\ alive = [s \in Ids |-> TRUE]
  /\ subscribed = {"R1"}
  /\ now = 1
  /\ out = Quiet
  /\ pending = {}
  /\ sent = [running |-> <<>>, parked |-> {}]

NextLoop ==
  \/ \E r \in RoomNames, o \in {"move", "goalBy1", "goalBy2"} : TickBegin(r, o)
  \/ \E r \in RoomNames, m \in StateMsgs : ApplyBegin(r, m)
  \/ \E r \in RoomNames : PublishBegin(r)
  \/ Step
  \/ \E f \in sent.parked : Resume(f)
  \/ Advance

SpecLoop == InitLoop /\ [][NextLoop]_vars

\* the frames that write room r's game state as a tick or as a message application
Writers(r) == {f \in Frames : f.room = r /\ f.fn \in {"tick", "apply"}}

PasswordRequired ==
  /\ \A s \in {i \in Ids : alive[i] /\ joins[i].pc = "idle"}, r \in DOMAIN rooms :
       \A pw \in Passwords, n \in Names :
         rooms[r].password \notin {"", pw}
         => LET res == performNormalJoin(Reg, r, pw, s, n)
            IN res.err # "" /\ res.reg = Reg
  /\ \A s \in Ids :
       LET j == joins[s] IN
       (/\ j.pc = "getmeta" /\ j.meta # <<>>
        /\ j.roomName \notin DOMAIN rooms
        /\ j.meta[1].password \notin {"", j.password})
       => LET res == createRoomWithHostRestoration(Reg, j.roomName, j.password, s,
                                                   j.playerName, j.meta)
          IN res.err # "" /\ res.reg = Reg

\* names longer than MaxNameLength that a client may send
LongName == "Bartholomew-Maximilian"
LongRoomName == "Room-of-the-long-name-1"

\* one node whose clients also try names that are too long, on a local room,
\* on a fresh creation and on a room rehydrated after its host has left
NextNames ==
  \/ \E s \in Ids, r \in RoomNames \cup {LongRoomName}, pw \in JoinPasswords :
       \E n \in JoinNames(s) \cup {LongName} : HandleJoinRoom(s, r, pw, n)
  \/ \E s \in Ids : JoinExistsReply(s)
  \/ \E s \in Ids : JoinMetaReply(s)
  \/ \E s \in Ids : JoinPublished(s)
  \/ \E s \in Ids : HandleLeaveRoom(s)

SpecNames == Init /\ [][NextNames]_vars

\* C28: in every reachable state every registered room name and the name of
\* every entry of the player table has at most MaxNameLength characters.
NamesWithinLength ==
  /\ \A r \in DOMAIN rooms : Length(r) <= MaxNameLength
  /\ \A i \in DOMAIN players : Length(players[i].name) <= MaxNameLength

\* ------------------------------------------------------------ leaving
\* C29: in every reachable state, when the only member of a room, host or
\* guest, leaves or disconnects, the room is no longer registered afterwards.
EmptiedRoomGone ==
  \A s \in {i \in Ids : alive[i] /\ i \in DOMAIN players} :
    LET r == players[s].room
    IN (IsMember(s, r) /\ MemberIds(rooms[r]) = {s})
       => r \notin DOMAIN handleDisconnect(Reg, s).rooms

\* ------------------------------------------------------------ forced cleanup
\* the table entries forceCleanupPlayer(id, name) is to purge
Purged(id, name) == {j \in DOMAIN players : j = id \/ players[j].name = name}

\* the member objects of registry reg's room r that are neither under id nor
\* carry name
Bystanders(reg, r, id, name) ==
  {m \in MemberObjs(reg, r) : m[2].id # id /\ m[2].name # name}

\* C30: in every reachable state, forceCleanupPlayer(id, name) removes from the
\* player table the entry under id and every entry carrying name and leaves
\* the other entries as they were; it deletes every room that had a purged
\* entry as its host; and in every room it keeps no member is under id or
\* carries name, while the other members are as they were.
ForceCleanupPurges ==
  \A id \in Ids, name \in Names :
    LET after == forceCleanupPlayer(Reg, id, name)
        purged == Purged(id, name)
    IN /\ DOMAIN after.players = (DOMAIN players) \ purged
       /\ \A j \in DOMAIN after.players : after.players[j] = players[j]
       /\ \A r \in DOMAIN rooms :
            IF \E j \in purged : players[j].isHost /\ players[j].room = r
              THEN r \notin DOMAIN after.rooms
              ELSE /\ r \in DOMAIN after.rooms
                   /\ \A m \in MemberObjs(after, r) : m[2].id # id /\ m[2].name # name
                   /\ Bystanders(after, r, id, name) = Bystanders(Reg, r, id, name)

\* ------------------------------------------------------------ publish failures
\* The tick loop and the publish interval of a node whose Redis comes and goes,
\* with two matches running: Alice's against Bob in R1 and one the peer has
\* replicated into R2.  sent.up tells whether Redis takes a publish,
\* sent.exited whether an error has left a callback uncaught, sent.failed
\* whether the publish under observation has failed, sent.ticked the rooms the
\* tick loop has stepped since, sent.attempted whether a publish has been
\* attempted since.
OtherRoom == "R2"

\* publishGameState that lets the error of pub.publish escape
publishGameStateUncaught(up) == IF up THEN "published" ELSE "thrown"

\* publishGameState of redis.ts: the error of pub.publish is caught and logged
publishGameState(up) == IF up THEN "published" ELSE "logged"

InitPublish ==
  /\ rooms = [r \in {"R1", OtherRoom} |->
                IF r = "R1"
                  THEN [Lobby.rooms["R1"] EXCEPT
                          !.gameState = <<StartedState(<<"s1", "s2">>, 1)>>,
                          !.isGameActive = TRUE]
                  ELSE updateRoomState(Room(OtherRoom, "", PeerHostId, Carol),
                                       [state |-> StartedState(<<PeerHostId, "py">>, 0),
                                        timestamp |-> 1, serverId |-> PeerServerId])]
  /\ players = Lobby.players
  /\ joins = [s \in Ids |-> Idle]
  /\ store = [r \in {"R1"} |-> roomData(Lobby.rooms["R1"])]
  /\ sio = [s \in Ids |-> {"R1"}]
  /\ alive = [s \in Ids |-> TRUE]
  /\ subscribed = {"R1", OtherRoom}
  /\ now = 1
  /\ out = Quiet
  /\ pending = {}
  /\ sent = [up |-> TRUE, exited |-> FALSE, failed |-> FALSE, ticked |-> {},
             attempted |-> FALSE]

\* the rooms a callback of the tick loop steps
Stepped == {r \in DOMAIN rooms : Ticking(rooms[r]) /\ rooms[r].gameState # <<>>}

\* one callback of the startGameLoop interval
LoopTick ==
  /\ ~sent.exited
  /\ \E o \in [DOMAIN rooms -> {"move", "goalBy1", "goalBy2"}] :
       /\ \A r \in DOMAIN rooms : o[r] \in TickOutcomes(rooms[r])
       /\ rooms' = [r \in DOMAIN rooms |->
                      IF Ticking(rooms[r]) THEN updateGamePhysics(rooms[r], o[r], now)
                      ELSE rooms[r]]
  /\ sent' = [sent EXCEPT !.ticked = IF sent.failed THEN @ \cup Stepped ELSE @]
  /\ out' = Quiet
  /\ UNCHANGED <<players, joins, store, sio, alive, subscribed, now, pending>>

\* the publish interval, one room of its loop: stamp, publishGameState, emit;
\* an error that leaves publishGameState rejects the callback's promise and
\* the process ends
PublishAttempt(r) ==
  /\ ~sent.exited
  /\ r \in DOMAIN rooms
  /\ rooms[r].isGameActive /\ rooms[r].gameState # <<>>
  /\ rooms' = [rooms EXCEPT ![r].gameState[1].timestamp = now]
  /\ LET res == publishGameState(sent.up) IN
       /\ out' = IF res = "thrown" THEN Quiet ELSE Events({"game-update"})
       /\ \E observed \in BOOLEAN :
            sent' = [sent EXCEPT !.exited = (res = "thrown"),
                                 !.failed = @ \/ (res # "published" /\ observed),
                                 !.attempted = @ \/ sent.failed]
  /\ UNCHANGED <<players, joins, store, sio, alive, subscribed, now, pending>>

NextPublish ==
  \/ RedisFails
  \/ RedisRecovers
  \/ LoopTick
  \/ \E r \in {"R1", OtherRoom} : PublishAttempt(r)

SpecPublish == InitPublish /\ [][NextPublish]_vars

\* both intervals keep firing while the process runs
SpecPublishFair ==
  /\ SpecPublish
  /\ WF_vars(LoopTick)
  /\ WF_vars(\E r \in {"R1", OtherRoom} : PublishAttempt(r))

\* every room the tick loop steps has been stepped since the observed failure,
\* and a publish has been attempted since
RunsOn ==
  /\ ~sent.exited
  /\ sent.attempted
  /\ \A r \in Stepped : r \in sent.ticked

NextRooms ==
  \/ \E s \in Ids, r \in RoomNames \cup {OtherRoom}, pw \in JoinPasswords :
       \E n \in JoinNames(s) : HandleJoinRoom(s, r, pw, n)
  \/ \E s \in Ids : JoinExistsReply(s)
  \/ \E s \in Ids : JoinMetaReply(s)
  \/ \E s \in Ids : JoinPublished(s)
  \/ \E s \in Ids : HandleLeaveRoom(s)

SpecRooms == Init /\ [][NextRooms]_vars

\* C32: whenever a join is refused because another session holds the player
\* name, on a room held locally or on the creation of a room absent locally and
\* from the store, the requester is sent the NameTaken error and the registry
\* is unchanged.
NameTakenReported ==
  [][/\ \A s \in Ids, r \in DOMAIN rooms, pw \in JoinPasswords, n \in Names :
          (HandleJoinRoom(s, r, pw, n)
             /\ performNormalJoin(Reg, r, pw, s, n).err = "NameTaken")
          => (out'.err = "NameTaken" /\ rooms' = rooms /\ players' = players)
     /\ \A s \in Ids :
          (JoinExistsReply(s) /\ ~joins[s].exists
             /\ resumeJoin(Reg, s, joins[s]).err = "NameTaken")
          => (out'.err = "NameTaken" /\ rooms' = rooms /\ players' = players)]_vars

\* ------------------------------------------------------------ idle rooms
\* The tick loop on a node that got its room from the stored projection, with
\* or without isGameActive, and gets the match itself from the peer's state
\* messages.  sent is <<the projected room, the callbacks of the loop so far>>.
\* updateGamePhysics that returns early for an inactive room only
ReturnsEarlyWhenInactive(room) == ~room.isGameActive

\* the first statement of Room.updateGamePhysics
ReturnsEarly(room) == room.gameState = <<>> \/ ~room.isGameActive

\* a call of room.updateGamePhysics: the room it leaves, and the TypeError of
\* reading this.gameState.ball when there is no game state
callUpdateGamePhysics(room, o, t) ==
  IF ReturnsEarly(room) THEN [err |-> "", room |-> room]
  ELSE IF room.gameState = <<>> THEN [err |-> "TypeError", room |-> room]
  ELSE [err |-> "", room |-> updateGamePhysics(room, o, t)]

InitIdle ==
  /\ \E room \in SourceRooms :
       /\ sent = <<room, 0>>
       /\ store = [r \in {room.name} |-> roomData(room)]
  /\ rooms = EmptyMap
  /\ players = EmptyMap
  /\ joins = [s \in Ids |-> Idle]
  /\ sio = [s \in Ids |-> {}]
  /\ alive = [s \in Ids |-> TRUE]
  /\ subscribed = RoomNames
  /\ now = 1
  /\ out = Quiet
  /\ pending = {}

\* one callback of the startGameLoop interval; an error thrown in it escapes
IdleTick ==
  /\ sent[2] < MaxTicks
  /\ sent' = <<sent[1], sent[2] + 1>>
  /\ \E o \in [DOMAIN rooms -> {"move", "goalBy1", "goalBy2"}] :
       /\ \A r \in DOMAIN rooms : o[r] \in TickOutcomes(rooms[r])
       /\ rooms' = [r \in DOMAIN rooms |->
                      IF Ticking(rooms[r])
                        THEN callUpdateGamePhysics(rooms[r], o[r], now).room
                        ELSE rooms[r]]
       /\ out' = IF \E r \in DOMAIN rooms :
                       Ticking(rooms[r])
                         /\ callUpdateGamePhysics(rooms[r], o[r], now).err # ""
                   THEN Error("TypeError") ELSE Quiet
  /\ UNCHANGED <<players, joins, store, sio, alive, subscribed, now, pending>>

NextIdle ==
  \/ \E r \in DOMAIN store : CreateRoomFromMetadata(r, store[r])
  \/ \E s \in Ids, r \in RoomNames, pw \in JoinPasswords :
       \E n \in JoinNames(s) : HandleJoinRoom(s, r, pw, n)
  \/ \E s \in Ids : JoinExistsReply(s)
  \/ \E s \in Ids : JoinMetaReply(s)
  \/ \E s \in Ids : JoinPublished(s)
  \/ \E r \in RoomNames, m \in LateStateMsgs : UpdateRoomState(r, m)
  \/ IdleTick

SpecIdle == InitIdle /\ [][NextIdle]_vars

\* the room has no match the loop could step
IdleRoom(room) == ~room.isGameActive \/ room.gameState = <<>>

DissolvedNameFresh ==
  \A s \in Ids :
    LET j == joins[s]
        res == resumeJoin(Reg, s, j)
    IN (j.pc = "getmeta" /\ j.roomName \notin DOMAIN rooms)
       => /\ res.err = ""
          /\ res.reg.rooms[j.roomName].hostName = j.playerName
          /\ res.reg.rooms[j.roomName].hostId = s
          /\ res.reg.players[s].isHost

\* ------------------------------------------------------------ joins in flight together
\* One node on which every client may have a join suspended on a Redis call at
\* the same time.
\* handleJoinRoom -> joinRoomWithFailoverCheck, up to its first await
OverlappingJoinRoom(s, roomName, password, playerName) ==
  /\ alive[s] /\ joins[s].pc = "idle"
  /\ IF roomName \in DOMAIN rooms
       THEN LET res == performNormalJoin(Reg, roomName, password, s, playerName)
            IN /\ SetReg(res.reg)
               /\ sio' = IF res.err = "" THEN [sio EXCEPT ![s] = @ \cup {roomName}] ELSE sio
               /\ out' = Error(res.err)
               /\ UNCHANGED joins
       ELSE /\ joins' = [joins EXCEPT ![s] =
                           [pc |-> "exists", roomName |-> roomName, password |-> password,
                            playerName |-> playerName,
                            exists |-> roomName \in DOMAIN store, meta |-> <<>>]]
            /\ out' = Quiet
            /\ UNCHANGED <<rooms, players, sio>>
  /\ UNCHANGED <<store, alive, subscribed, now, pending, sent>>

NextRace ==
  \/ \E s \in Ids, r \in RoomNames, pw \in JoinPasswords :
       \E n \in JoinNames(s) : OverlappingJoinRoom(s, r, pw, n)
  \/ \E s \in Ids : JoinExistsReply(s)
  \/ \E s \in Ids : JoinMetaReply(s)
  \/ \E s \in Ids : JoinPublished(s)
  \/ \E s \in Ids : HandleLeaveRoom(s)
  \/ \E s \in Ids : HandleDisconnect(s)

SpecRace == Init /\ [][NextRace]_vars

\* in the next state socket t has a player entry for room r and is in the
\* maps of the room registered under r
MemberNext(t, r) ==
  /\ r \in DOMAIN rooms'
  /\ t \in DOMAIN players' /\ players'[t].room = r
  /\ t \in MemberIds(rooms'[r])

\* C35: when a join suspended on a Redis call resumes after another join in
\* flight at the same time has created the room, it succeeds, the joiner is a
\* member of the registered room, and the members the room had are still
\* members of the registered room.
OverlappingJoinsShareRoom ==
  [][\A s \in Ids :
       ((JoinExistsReply(s) \/ JoinMetaReply(s)) /\ joins[s].roomName \in DOMAIN rooms)
       => /\ out'.err = ""
          /\ \A t \in Ids :
               (t = s \/ IsMember(t, joins[s].roomName)) => MemberNext(t, joins[s].roomName)]_vars

\* ------------------------------------------------------------ disconnect during a join
\* registry reg holds nothing of session s: no player entry, no place in a room
NoTraceOf(reg, s) ==
  /\ s \notin DOMAIN reg.players
  /\ \A r \in DOMAIN reg.rooms : s \notin MemberIds(reg.rooms[r])

\* C36: in every reachable state, a session that has disconnected and whose
\* join-room handler has completed, also when the disconnect came while the
\* join was suspended on a Redis call, has no player entry and is in no room.
DisconnectedJoinerGone ==
  \A s \in Ids : (~alive[s] /\ joins[s].pc = "idle") => NoTraceOf(Reg, s)

\* ------------------------------------------------------------ table and rooms
\* C37: in every reachable state every entry of the player table names a
\* registered room that has this player in its players or guests, and every
\* member of a registered room has an entry in the player table under its id.
TableAndRoomsAgree ==
  /\ \A i \in DOMAIN players : IsMember(i, players[i].room)
  /\ \A r \in DOMAIN rooms : MemberIds(rooms[r]) \subseteq DOMAIN players

\* ------------------------------------------------------------ back to the lobby
\* The two nodes of SpecPair, with this node's clients also ending the match.
NextLobby ==
  \/ NextPair
  \/ \E s \in Ids : HandleBackToLobby(s)

SpecLobby == InitPair /\ [][NextLobby]_vars

\* the room is in the lobby: no game state, not active
InLobby(room) == room.gameState = <<>> /\ ~room.isGameActive

\* C38: a back-to-lobby that is accepted leaves the room without game state
\* and inactive, and a state message delivered to a room in that state (the
\* peer's copy of the ended match) leaves it there.
LobbyStays ==
  [][/\ \A s \in Ids :
          (HandleBackToLobby(s) /\ out'.err = "") => InLobby(rooms'[players[s].room])
     /\ \A r \in RoomNames : \A c \in pending :
          (PairDeliver(r, c) /\ InLobby(rooms[r])) => InLobby(rooms'[r])]_vars

\* ------------------------------------------------------------ paddle hits
\* the ball of game state gs, moved for dt, is in player1's collision zone
HitsLeft(gs, dt) ==
  LET x1 == gs.ball.x + gs.ball.vx * dt
      y1 == gs.ball.y + gs.ball.vy * dt
  IN x1 <= Px(30) /\ y1 >= Px(gs.paddles.player1) /\ y1 <= Px(gs.paddles.player1 + 100)

\* the same for player2's collision zone
HitsRight(gs, dt) ==
  LET x1 == gs.ball.x + gs.ball.vx * dt
      y1 == gs.ball.y + gs.ball.vy * dt
  IN /\ ~HitsLeft(gs, dt)
     /\ x1 >= Px(770) /\ y1 >= Px(gs.paddles.player2) /\ y1 <= Px(gs.paddles.player2 + 100)

\* the ball flies towards player1's side, or comes back from player1's paddle
FromOrTo1(ball) == ball.vx < 0 \/ ball.lastTouched = "player1"

\* the ball flies towards player2's side, or comes back from player2's paddle
FromOrTo2(ball) == ball.vx > 0 \/ ball.lastTouched = "player2"

\* C39: in every reachable state, a step in which the ball collides with a
\* paddle leaves its vx pointing away from that paddle (vx > 0 after
\* player1's, vx < 0 after player2's), also when the ball was already
\* reflected by that paddle and is still in its collision zone.
PaddleHitPointsAway ==
  \A r \in {q \in DOMAIN rooms : Ticking(rooms[q]) /\ rooms[q].gameState # <<>>} :
    \A dt \in DeltaTimes, rnd \in Draws :
      LET gs == rooms[r].gameState[1]
          new == PhysicsStep(rooms[r], dt, rnd, now).gameState[1]
      IN /\ (HitsLeft(gs, dt) /\ FromOrTo1(gs.ball)) => new.ball.vx > 0
         /\ (HitsRight(gs, dt) /\ FromOrTo2(gs.ball)) => new.ball.vx < 0

\* ------------------------------------------------------------ client reconnection
\* The browser client's connection manager.  sent is the client: pc is where
\* it stands ("connected", "connecting" while io(serverUrl) is pending,
\* "nextServer" and "retryDue" while a setTimeout is pending, "rejoinDue"
\* before the join-room is re-emitted, "stopped" when nothing is pending),
\* currentServerIndex and reconnectAttempts are the module's variables, stored
\* tells whether localStorage holds the room info, emitted whether join-room
\* has been re-emitted on the current socket, up which servers answer.
maxReconnectAttempts == 10
ServerCount == 2          \* SERVERS.length
ServerIndexes == 0..(ServerCount - 1)

\* tryNextServer up to the io(serverUrl) call; it resolves to null when the
\* index has run past the list, and handleDisconnection then only logs
tryNextServer(c) ==
  IF c.currentServerIndex >= ServerCount
    THEN [c EXCEPT !.pc = "stopped"]
    ELSE [c EXCEPT !.pc = "connecting"]

\* handleDisconnection up to its await
handleDisconnection(c) ==
  IF c.reconnectAttempts >= maxReconnectAttempts THEN [c EXCEPT !.pc = "stopped"]
  ELSE LET c1 == [c EXCEPT !.reconnectAttempts = @ + 1]
       IN IF ~c1.stored THEN [c1 EXCEPT !.pc = "stopped"] ELSE tryNextServer(c1)

InitClient ==
  /\ rooms = Lobby.rooms
  /\ players = Lobby.players
  /\ joins = [s \in Ids |-> Idle]
  /\ store = [r \in {"R1"} |-> roomData(Lobby.rooms["R1"])]
  /\ sio = [s \in Ids |-> {"R1"}]
  /\ alive = [s \in Ids |-> TRUE]
  /\ subscribed = {}
  /\ now = 1
  /\ out = Quiet
  /\ pending = {}
  /\ \E st \in BOOLEAN :
       sent = [pc |-> "connected", currentServerIndex |-> 0, reconnectAttempts |-> 0,
               stored |-> st, emitted |-> FALSE, up |-> [k \in ServerIndexes |-> TRUE]]

ClientStep(c) ==
  /\ sent' = c
  /\ UNCHANGED <<rooms, players, joins, store, sio, alive, subscribed, now, out, pending>>

\* a server stops or starts answering
ServerChanges(k) ==
  /\ k \in ServerIndexes
  /\ ClientStep([sent EXCEPT !.up[k] = ~@])

\* the socket's disconnect event
ConnectionDrops ==
  /\ sent.pc = "connected"
  /\ ClientStep(handleDisconnection([sent EXCEPT !.emitted = FALSE]))

\* the connect event of the pending socket: tryNextServer resolves and
\* handleDisconnection schedules the join-room
Connects ==
  /\ sent.pc = "connecting"
  /\ sent.up[sent.currentServerIndex]
  /\ ClientStep([sent EXCEPT !.currentServerIndex = 0, !.reconnectAttempts = 0,
                             !.pc = IF sent.stored THEN "rejoinDue" ELSE "connected"])

\* the connect_error event of the pending socket: the next server after a
\* second, or the rejection that handleDisconnection catches
ConnectError ==
  /\ sent.pc = "connecting"
  /\ ~sent.up[sent.currentServerIndex]
  /\ ClientStep([sent EXCEPT !.currentServerIndex = @ + 1,
                             !.pc = IF sent.currentServerIndex + 1 < ServerCount
                                      THEN "nextServer" ELSE "retryDue"])

\* the 5 s timeout of the pending socket: the rejection that
\* handleDisconnection catches, the index as it was
ConnectTimeout ==
  /\ sent.pc = "connecting"
  /\ ~sent.up[sent.currentServerIndex]
  /\ ClientStep([sent EXCEPT !.pc = "retryDue"])

\* the setTimeout callback of the connect_error handler
NextServerTimer ==
  /\ sent.pc = "nextServer"
  /\ ClientStep(tryNextServer(sent))

\* the setTimeout callback of handleDisconnection's catch
RetryTimer ==
  /\ sent.pc = "retryDue"
  /\ ClientStep(handleDisconnection(sent))

\* the setTimeout callback that emits join-room with the stored room info
RejoinTimer ==
  /\ sent.pc = "rejoinDue"
  /\ ClientStep([sent EXCEPT !.pc = "connected", !.emitted = TRUE])

NextClient ==
  \/ \E k \in ServerIndexes : ServerChanges(k)
  \/ ConnectionDrops
  \/ Connects
  \/ ConnectError
  \/ ConnectTimeout
  \/ NextServerTimer
  \/ RetryTimer
  \/ RejoinTimer

SpecClient == InitClient /\ [][NextClient]_vars

\* C40: in every reachable state in which a server is reachable, a client with
\* stored room info that has lost its connection and has reconnect attempts
\* left has not stopped: a
\* connection attempt or a timer of its reconnection is pending, also after a
\* pass in which every server failed; and a client that has reconnected has
\* re-emitted join-room once its timer has run.
ReconnectKeepsTrying ==
  /\ (sent.pc = "stopped" /\ sent.stored /\ \E k \in ServerIndexes : sent.up[k])
       => sent.reconnectAttempts >= maxReconnectAttempts
  /\ (sent.pc = "connected" /\ sent.stored /\ ~sent.emitted)
       => sent.reconnectAttempts = 0

====
